---- MODULE Spec2Model ----
(***************************************************************************)
(* Citation reconciliation of the chatbot (src/chatbot.py) and the thesis  *)
(* parser of the service layer (src/app/services.py).                      *)
(*                                                                         *)
(* A Python str is a sequence of characters; a character is a TLA+ string  *)
(* holding that one character (the full-width colon U+FF1A, the private    *)
(* use characters U+E200/U+E201 and the zero-width space U+200B are        *)
(* written by name).                                                       *)
(***************************************************************************)
EXTENDS Integers, Sequences, FiniteSets, TLC

VARIABLES
    \* inject_inline_citations called as a function (SpecInject)
    answer_text, files_list, web_list, max_refs, inject_result,
    \* extract_sources_and_quotes called as a function (SpecExtract)
    final_response, extract_result,
    \* the chat turn of the chatbot script (Spec)
    chat_history,             \* st.session_state.chat_history
    pc,                       \* where the script stands: "idle", "stream", "streaming", "fallback"
    stream,                   \* the open stream: the deltas still to come and its final response
    streamed_text, sources_web, quotes_files, final_response_obj,
    final_answer, final_answer_with_cites, refs_mapping,
    bubble,                   \* what the assistant bubble shows
    outcome,                  \* how the last run of the script ended: "none", "done", "raised"
    upstream,                 \* the model calls of the turn: "none", "stream", "create", "failed"
    model_calls,              \* the calls the turn made of the client, in order: which call,
                              \* whether it raised, how many text deltas it delivered
    page,                     \* the history entries the current run of the script rendered
    \* parse_investment_thesis called as a function (SpecThesis)
    client,                   \* what the calls of the model client do
    thesis_result,
    \* the file manager of the chatbot sidebar (SpecFiles)
    vs_files,                 \* the files attached to the vector store, in listing order
    files_created,            \* how many file objects the account has ever been given
    file_index,               \* config.json's "file_index": filename -> file_id and sha256
    upload_key,               \* st.session_state.upload_key
    upload_report,            \* what the last run of the upload handler processed and counted
    \* the AgentLab view of the sessions of one server process (SpecLab)
    DEFAULT_INBOUND_WORKSTREAMS,   \* the module-level dict of src/app/state.py
    session_state,            \* st.session_state of each session
    clicks,                   \* how many button clicks the sessions have handled
    last_click,               \* the click the last run handled: session, button, name, and
                              \* st.session_state.current_workstream when that run began
    \* sanitize_text called as a function (SpecSanitize)
    raw_text, sanitize_result

injectVars == <<answer_text, files_list, web_list, max_refs, inject_result>>
extractVars == <<final_response, extract_result>>
turnVars == <<chat_history, pc, stream, streamed_text, sources_web, quotes_files,
              final_response_obj, final_answer, final_answer_with_cites, refs_mapping,
              bubble, outcome, upstream, model_calls, page>>
thesisVars == <<client, thesis_result>>
filesVars == <<vs_files, files_created, file_index, upload_key, upload_report>>
labVars == <<DEFAULT_INBOUND_WORKSTREAMS, session_state, clicks, last_click>>
sanitizeVars == <<raw_text, sanitize_result>>
sideVars == <<filesVars, labVars, sanitizeVars>>
vars == <<injectVars, extractVars, turnVars, thesisVars, sideVars>>

-----------------------------------------------------------------------------
(* Bounds of the model *)

MaxLines == 3      \* lines of an answer text
MaxEvid == 2       \* items of each evidence list handed to the injector
MaxRefsArg == 2    \* explicit max_refs arguments 0..MaxRefsArg
MaxItems == 2      \* items of a tool result, annotations of an output text
MaxTurns == 1      \* chat inputs of a session
MaxFailedTurns == 1   \* further chat inputs, each after a turn that ended in an exception

(* Program constants *)

DefaultMaxRefs == 20   \* inject_inline_citations(max_refs=20)
ItemCap == 10          \* items[:10], dedup_web[:10], dedup_quotes[:10]

-----------------------------------------------------------------------------
(* Characters *)

LF == "\n"
CR == "\r"
FWColon == "U+FF1A"
CiteOpen == "U+E200"
CiteClose == "U+E201"
ZeroWidth == "U+200B"
EmDash == "U+2014"

\* str.strip() and the regex class \s: the whitespace characters of the alphabet
Whitespace == {" ", LF, CR}

Digits == <<"0", "1", "2", "3", "4", "5", "6", "7", "8", "9">>

IsDigit(c) == \E i \in 1..10 : Digits[i] = c

-----------------------------------------------------------------------------
(* Python str operations *)

RECURSIVE Concat(_)
\* "".join(parts)
Concat(parts) ==
    IF parts = <<>> THEN <<>> ELSE Head(parts) \o Concat(Tail(parts))

RECURSIVE Join(_, _)
\* sep.join(parts)
Join(sep, parts) ==
    IF parts = <<>> THEN <<>>
    ELSE IF Len(parts) = 1 THEN parts[1]
    ELSE parts[1] \o sep \o Join(sep, Tail(parts))

RECURSIVE IntToStr(_)
\* the decimal digits an f-string writes for a non-negative int
IntToStr(n) ==
    IF n < 10 THEN <<Digits[n + 1]>>
    ELSE IntToStr(n \div 10) \o <<Digits[(n % 10) + 1]>>

\* s.startswith(p)
StartsWith(s, p) == Len(p) <= Len(s) /\ SubSeq(s, 1, Len(p)) = p

\* s.endswith(p)
EndsWith(s, p) == Len(p) <= Len(s) /\ SubSeq(s, Len(s) - Len(p) + 1, Len(s)) = p

RECURSIVE LStrip(_)
LStrip(s) ==
    IF s # <<>> /\ Head(s) \in Whitespace THEN LStrip(Tail(s)) ELSE s

RECURSIVE RStrip(_)
RStrip(s) ==
    IF s # <<>> /\ s[Len(s)] \in Whitespace THEN RStrip(SubSeq(s, 1, Len(s) - 1)) ELSE s

\* s.strip()
Strip(s) == RStrip(LStrip(s))

\* index of the first line boundary character of s, Len(s) + 1 when there is none
FirstBreak(s) ==
    IF \E i \in 1..Len(s) : s[i] \in {LF, CR}
    THEN CHOOSE i \in 1..Len(s) :
            /\ s[i] \in {LF, CR}
            /\ \A j \in 1..(i - 1) : s[j] \notin {LF, CR}
    ELSE Len(s) + 1

RECURSIVE SplitLines(_)
\* s.splitlines(): "\n", "\r" and "\r\n" end a line, the terminators are dropped and
\* no empty last line is produced for a text that ends with a terminator
SplitLines(s) ==
    IF s = <<>> THEN <<>>
    ELSE LET i == FirstBreak(s)
             line == SubSeq(s, 1, i - 1)
             skip == IF i < Len(s) /\ s[i] = CR /\ s[i + 1] = LF THEN 2 ELSE 1
         IN  IF i > Len(s) THEN <<line>>
             ELSE <<line>> \o SplitLines(SubSeq(s, i + skip, Len(s)))

-----------------------------------------------------------------------------
(* sanitize_text and the "References:" pattern, src/chatbot.py *)

RECURSIVE RemoveCiteWraps(_)
\* _CITE_WRAP_RE.sub("", s): each U+E200 up to the first U+E201 after it is removed
RemoveCiteWraps(s) ==
    IF s = <<>> THEN <<>>
    ELSE IF Head(s) = CiteOpen /\ \E j \in 2..Len(s) : s[j] = CiteClose
    THEN LET j == CHOOSE j \in 2..Len(s) :
                     s[j] = CiteClose /\ \A k \in 2..(j - 1) : s[k] # CiteClose
         IN  RemoveCiteWraps(SubSeq(s, j + 1, Len(s)))
    ELSE <<Head(s)>> \o RemoveCiteWraps(Tail(s))

\* the number of digits of s from index i on
DigitRun(s, i) ==
    IF \E j \in i..Len(s) : ~IsDigit(s[j])
    THEN (CHOOSE j \in i..Len(s) : ~IsDigit(s[j]) /\ \A k \in i..(j - 1) : IsDigit(s[k])) - i
    ELSE Len(s) - i + 1

\* the length of the match of \[turn\d+file\d+\] at the start of s, 0 when there is none
TurnFileMatch(s) ==
    IF ~StartsWith(s, <<"[", "t", "u", "r", "n">>) THEN 0
    ELSE LET d1 == DigitRun(s, 6)
             p == 6 + d1
         IN  IF d1 = 0 \/ ~StartsWith(SubSeq(s, p, Len(s)), <<"f", "i", "l", "e">>) THEN 0
             ELSE LET d2 == DigitRun(s, p + 4)
                      q == p + 4 + d2
                  IN  IF d2 > 0 /\ q <= Len(s) /\ s[q] = "]" THEN q ELSE 0

RECURSIVE RemoveTurnFiles(_)
\* _TURN_FILE_RE.sub("", s)
RemoveTurnFiles(s) ==
    IF s = <<>> THEN <<>>
    ELSE IF TurnFileMatch(s) > 0 THEN RemoveTurnFiles(SubSeq(s, TurnFileMatch(s) + 1, Len(s)))
    ELSE <<Head(s)>> \o RemoveTurnFiles(Tail(s))

\* the keys of _ZERO_WIDTH
ZeroWidthChars == {ZeroWidth, "U+200C", "U+200D", "U+2060"}

\* s.translate(_ZERO_WIDTH)
RemoveZeroWidth(s) == SelectSeq(s, LAMBDA c : c \notin ZeroWidthChars)

\* sanitize_text(s)
sanitize_text(s) ==
    IF s = <<>> THEN s
    ELSE Strip(RemoveZeroWidth(RemoveTurnFiles(RemoveCiteWraps(s))))

\* the lower case of the letters of "references" (re.I)
Lower(c) ==
    CASE c = "R" -> "r" [] c = "E" -> "e" [] c = "F" -> "f"
      [] c = "N" -> "n" [] c = "C" -> "c" [] c = "S" -> "s" [] OTHER -> c

\* the index of the first character of s from index i on that is no whitespace
SkipWhitespace(s, i) ==
    IF \E j \in i..Len(s) : s[j] \notin Whitespace
    THEN CHOOSE j \in i..Len(s) : s[j] \notin Whitespace /\ \A k \in i..(j - 1) : s[k] \in Whitespace
    ELSE Len(s) + 1

ReferencesWord == <<"r", "e", "f", "e", "r", "e", "n", "c", "e", "s">>

\* \s*references\s*: matches at index i of s
ReferencesAt(s, i) ==
    LET p == SkipWhitespace(s, i)
        q == p + Len(ReferencesWord)
    IN  /\ q - 1 <= Len(s)
        /\ [k \in 1..Len(ReferencesWord) |-> Lower(s[p + k - 1])] = ReferencesWord
        /\ SkipWhitespace(s, q) <= Len(s)
        /\ s[SkipWhitespace(s, q)] = ":"

\* re.search(r"(?im)^\s*references\s*:", s): ^ matches at the start of s and after
\* each line feed
HasReferencesSection(s) ==
    \E i \in 1..Len(s) : (i = 1 \/ s[i - 1] = LF) /\ ReferencesAt(s, i)

-----------------------------------------------------------------------------
(* Python values: a value is a record with its type tag t and, but for None, its    *)
(* payload v: the characters of a str, the decimal digits of an int, the elements   *)
(* of a list, the key -> value function of a dict, the attributes of an object.     *)

PyNone == [t |-> "none"]
PyStr(chars) == [t |-> "str", v |-> chars]
PyInt(digits) == [t |-> "int", v |-> digits]
PyList(elems) == [t |-> "list", v |-> elems]
PyDict(f) == [t |-> "dict", v |-> f]
PyObj(attrs) == [t |-> "obj", v |-> attrs]
EmptyDict == PyDict(<<>>)

\* bool(x)
Truthy(x) ==
    CASE x.t = "none" -> FALSE
      [] x.t = "str" -> x.v # <<>>
      [] x.t = "int" -> x.v # <<"0">>
      [] x.t = "bool" -> x.v
      [] x.t = "float" -> x.v \notin {<<"0", ".", "0">>, <<"-", "0", ".", "0">>}
      [] x.t = "list" -> x.v # <<>>
      [] x.t = "dict" -> DOMAIN x.v # {}
      [] OTHER -> TRUE

\* x or y
Or(x, y) == IF Truthy(x) THEN x ELSE y

\* d.get(key) of a dict d
Get(d, key) == IF key \in DOMAIN d.v THEN d.v[key] ELSE PyNone

\* getattr(o, name, default)
GetAttr(o, name, default) ==
    IF o.t = "obj" /\ name \in DOMAIN o.v THEN o.v[name] ELSE default

\* isinstance(x, dict)
IsDict(x) == x.t = "dict"

\* hash(x) raises TypeError for a list or a dict
Hashable(x) == x.t \notin {"list", "dict"}

\* "for e in x" raises TypeError for None, an int or a plain object
Iterable(x) == x.t \in {"list", "str", "dict"}

\* x[:10] raises for everything but a sequence type
Sliceable(x) == x.t \in {"list", "str"}

\* the elements a loop over x visits: those of a list; the loops below skip the
\* one-character strs of a str and the str keys of a dict, which are no dicts and
\* have no attributes
Elements(x) == IF x.t = "list" THEN x.v ELSE <<>>

\* seq[:n]
Take(seq, n) == SubSeq(seq, 1, IF n < Len(seq) THEN n ELSE Len(seq))

-----------------------------------------------------------------------------
(* inject_inline_citations, src/chatbot.py *)

\* the combined sequence built with the web items first
Combined_WebFirst(files, web, maxRefs) ==
    LET all == [i \in 1..Len(web) |-> <<"web", web[i]>>]
               \o [i \in 1..Len(files) |-> <<"file", files[i]>>]
    IN  SubSeq(all, 1, IF maxRefs < Len(all) THEN maxRefs ELSE Len(all))

\* combined = [("file", f) ...] + [("web", w) ...]; combined[:max_refs]
Combined(files, web, maxRefs) ==
    LET all == [i \in 1..Len(files) |-> <<"file", files[i]>>]
               \o [i \in 1..Len(web) |-> <<"web", web[i]>>]
    IN  SubSeq(all, 1, IF maxRefs < Len(all) THEN maxRefs ELSE Len(all))

\* is_heading without the test for the full-width colon
is_heading_AsciiOnly(line) ==
    LET l == Strip(line)
    IN  StartsWith(l, <<"#">>) \/ EndsWith(l, <<":">>)

\* is_heading(line)
is_heading(line) ==
    LET l == Strip(line)
    IN  StartsWith(l, <<"#">>) \/ EndsWith(l, <<":">>) \/ EndsWith(l, <<FWColon>>)

\* f"{line} [{ref_idx}]"
WithMarker(line, ref_idx) == line \o <<" ", "[">> \o IntToStr(ref_idx) \o <<"]">>

RECURSIVE InjectLoop_StopsOneEarly(_, _, _, _, _)
\* the loop with ref_idx < len(combined) for its test: the last reference is never used
InjectLoop_StopsOneEarly(lines, combined, ref_idx, out_lines, mapping) ==
    IF lines = <<>> THEN [out_lines |-> out_lines, refs_mapping |-> mapping]
    ELSE LET line == Head(lines) IN
         IF Strip(line) = <<>>
         THEN InjectLoop_StopsOneEarly(Tail(lines), combined, ref_idx,
                                       Append(out_lines, line), mapping)
         ELSE IF ref_idx < Len(combined) /\ ~is_heading(line)
         THEN InjectLoop_StopsOneEarly(Tail(lines), combined, ref_idx + 1,
                         Append(out_lines, WithMarker(line, ref_idx)),
                         Append(mapping, <<ref_idx, combined[ref_idx][2], combined[ref_idx][1]>>))
         ELSE InjectLoop_StopsOneEarly(Tail(lines), combined, ref_idx,
                                       Append(out_lines, line), mapping)

RECURSIVE InjectLoop(_, _, _, _, _)
\* the for loop over lines: the state of the loop is (ref_idx, out_lines, refs_mapping)
InjectLoop(lines, combined, ref_idx, out_lines, mapping) ==
    IF lines = <<>> THEN [out_lines |-> out_lines, refs_mapping |-> mapping]
    ELSE LET line == Head(lines) IN
         IF Strip(line) = <<>>
         THEN InjectLoop(Tail(lines), combined, ref_idx, Append(out_lines, line), mapping)
         ELSE IF ref_idx <= Len(combined) /\ ~is_heading(line)
         THEN InjectLoop(Tail(lines), combined, ref_idx + 1,
                         Append(out_lines, WithMarker(line, ref_idx)),
                         Append(mapping, <<ref_idx, combined[ref_idx][2], combined[ref_idx][1]>>))
         ELSE InjectLoop(Tail(lines), combined, ref_idx, Append(out_lines, line), mapping)

\* inject_inline_citations(answer_text, files_list, web_list, max_refs)
inject_inline_citations(text, files, web, maxRefs) ==
    IF text = <<>> THEN [text |-> text, refs_mapping |-> <<>>]
    ELSE LET r == InjectLoop(SplitLines(text), Combined(files, web, maxRefs), 1, <<>>, <<>>)
         IN  [text |-> Join(<<LF>>, r.out_lines), refs_mapping |-> r.refs_mapping]

-----------------------------------------------------------------------------
(* extract_sources_and_quotes, src/chatbot.py *)

SourceTitle == PyStr(<<"S", "o", "u", "r", "c", "e">>)
FileName == PyStr(<<"f", "i", "l", "e">>)
EmptyStr == PyStr(<<>>)
ToolResultType == PyStr(<<"t", "o", "o", "l", "_", "r", "e", "s", "u", "l", "t">>)
OutputTextType == PyStr(<<"o", "u", "t", "p", "u", "t", "_", "t", "e", "x", "t">>)
WebSearchTool == PyStr(<<"w", "e", "b", "_", "s", "e", "a", "r", "c", "h">>)
FileSearchTool == PyStr(<<"f", "i", "l", "e", "_", "s", "e", "a", "r", "c", "h">>)
WebCitationType == PyStr(<<"w", "e", "b", "_", "c", "i", "t", "a", "t", "i", "o", "n">>)
FileCitationType == PyStr(<<"f", "i", "l", "e", "_", "c", "i", "t", "a", "t", "i", "o", "n">>)

\* the items of a tool result: data["results"] of a dict holding that key, data itself
\* when it is a list, [] otherwise
ToolItems(data) ==
    IF IsDict(data) /\ "results" \in DOMAIN data.v THEN data.v["results"]
    ELSE IF data.t = "list" THEN data
    ELSE PyList(<<>>)

RECURSIVE WebResults_NoDefaults(_)
\* the web_search loop without the "or" defaults of title and snippet
WebResults_NoDefaults(items) ==
    IF items = <<>> THEN <<>>
    ELSE LET r == Head(items)
             url == Or(Or(Get(r, "url"), Get(r, "link")), EmptyStr)
         IN  (IF IsDict(r) /\ Truthy(url)
              THEN <<PyDict([title |-> Get(r, "title"), url |-> url,
                            snippet |-> Get(r, "snippet")])>>
              ELSE <<>>) \o WebResults_NoDefaults(Tail(items))

RECURSIVE WebResults(_)
\* the loop over the items of a web_search result: what it appends to web_sources
WebResults(items) ==
    IF items = <<>> THEN <<>>
    ELSE LET r == Head(items)
             title == Or(Get(r, "title"), SourceTitle)
             url == Or(Or(Get(r, "url"), Get(r, "link")), EmptyStr)
             snippet == Or(Get(r, "snippet"), EmptyStr)
         IN  (IF IsDict(r) /\ Truthy(url)
              THEN <<PyDict([title |-> title, url |-> url, snippet |-> snippet])>>
              ELSE <<>>) \o WebResults(Tail(items))

RECURSIVE FileResults(_)
\* the loop over the items of a file_search result: what it appends to file_quotes
FileResults(items) ==
    IF items = <<>> THEN <<>>
    ELSE LET r == Head(items)
             quote == IF IsDict(r) THEN Or(Or(Get(r, "quote"), Get(r, "text")), EmptyStr)
                      ELSE EmptyStr
             file_meta == Or(Get(r, "file"), EmptyDict)
             filename == IF IsDict(r) /\ IsDict(file_meta)
                         THEN Or(Or(Get(file_meta, "filename"), Get(file_meta, "name")), FileName)
                         ELSE FileName
         IN  (IF Truthy(quote) THEN <<PyDict([filename |-> filename, quote |-> quote])>>
              ELSE <<>>) \o FileResults(Tail(items))

RECURSIVE AnnotationWeb(_)
\* the loop over annotations: what it appends to web_sources
AnnotationWeb(anns) ==
    IF anns = <<>> THEN <<>>
    ELSE LET a == Head(anns) IN
         (IF IsDict(a) /\ Get(a, "type") = WebCitationType
          THEN <<PyDict([title |-> Or(Get(a, "title"), SourceTitle),
                       url |-> Or(Get(a, "url"), EmptyStr),
                       snippet |-> Or(Get(a, "snippet"), EmptyStr)])>>
          ELSE <<>>) \o AnnotationWeb(Tail(anns))

RECURSIVE AnnotationFiles(_)
\* the loop over annotations: what it appends to file_quotes
AnnotationFiles(anns) ==
    IF anns = <<>> THEN <<>>
    ELSE LET a == Head(anns)
             file == Or(Get(a, "file"), EmptyDict)
             filename == IF IsDict(file) THEN Get(file, "filename") ELSE FileName
             quote == Or(Get(a, "quote"), EmptyStr)
         IN  (IF IsDict(a) /\ Get(a, "type") = FileCitationType /\ Truthy(quote)
              THEN <<PyDict([filename |-> Or(filename, FileName), quote |-> quote])>>
              ELSE <<>>) \o AnnotationFiles(Tail(anns))

\* one pass of the loop body over a block, items[:cap] being the slice of a tool
\* result: what the block appends to the two lists, and whether the body raised
\* (it then appended nothing)
ExtractBlockCap(block, cap) ==
    LET type == GetAttr(block, "type", EmptyStr)
        tool_name == Or(GetAttr(block, "tool_name", PyNone), GetAttr(block, "name", PyNone))
        data == GetAttr(block, "output", PyNone)
        isTool == type = ToolResultType
        doWeb == isTool /\ tool_name = WebSearchTool /\ Truthy(data)
        doFile == isTool /\ tool_name = FileSearchTool /\ Truthy(data)
        items == ToolItems(data)
        anns == Or(GetAttr(block, "annotations", PyNone), PyList(<<>>))
        doAnns == type = OutputTextType
    IN  IF (doWeb \/ doFile) /\ ~Sliceable(items)
        THEN [web |-> <<>>, files |-> <<>>, raised |-> TRUE]
        ELSE IF doAnns /\ ~Iterable(anns)
        THEN [web |-> <<>>, files |-> <<>>, raised |-> TRUE]
        ELSE [web |-> (IF doWeb THEN WebResults(Take(Elements(items), cap)) ELSE <<>>)
                      \o (IF doAnns THEN AnnotationWeb(Elements(anns)) ELSE <<>>),
              files |-> (IF doFile THEN FileResults(Take(Elements(items), cap)) ELSE <<>>)
                        \o (IF doAnns THEN AnnotationFiles(Elements(anns)) ELSE <<>>),
              raised |-> FALSE]

\* the loop body as written: for r in items[:10]
ExtractBlock(block) == ExtractBlockCap(block, ItemCap)

RECURSIVE ExtractBlocks(_)
\* the loop over the blocks inside try: it stops at the first block that raises
ExtractBlocks(blocks) ==
    IF blocks = <<>> THEN [web |-> <<>>, files |-> <<>>]
    ELSE LET b == ExtractBlock(Head(blocks))
             rest == IF b.raised THEN [web |-> <<>>, files |-> <<>>]
                     ELSE ExtractBlocks(Tail(blocks))
         IN  [web |-> b.web \o rest.web, files |-> b.files \o rest.files]

\* try: for block in getattr(final_response, "output", []) or []: ... except: pass
Collect(response) ==
    LET output == Or(GetAttr(response, "output", PyList(<<>>)), PyList(<<>>))
    IN  IF ~Iterable(output) THEN [web |-> <<>>, files |-> <<>>]
        ELSE ExtractBlocks(Elements(output))

\* the key the file loop of the dedup puts in seen_quotes
QuoteKey(q) == <<Get(q, "filename"), Get(q, "quote")>>

RECURSIVE DedupWeb_KeepLast(_, _)
\* a dedup loop that keeps the last item of each URL instead of the first
DedupWeb_KeepLast(sources, seen) ==
    IF sources = <<>> THEN <<>>
    ELSE LET u == Or(Get(Head(sources), "url"), EmptyStr)
             later == \E i \in 2..Len(sources) : Or(Get(sources[i], "url"), EmptyStr) = u
         IN  IF Truthy(u) /\ ~later
             THEN <<Head(sources)>> \o DedupWeb_KeepLast(Tail(sources), seen)
             ELSE DedupWeb_KeepLast(Tail(sources), seen)

RECURSIVE DedupWeb(_, _)
\* the dedup loop over web_sources, seen being seen_urls
DedupWeb(sources, seen) ==
    IF sources = <<>> THEN <<>>
    ELSE LET u == Or(Get(Head(sources), "url"), EmptyStr) IN
         IF Truthy(u) /\ u \notin seen
         THEN <<Head(sources)>> \o DedupWeb(Tail(sources), seen \cup {u})
         ELSE DedupWeb(Tail(sources), seen)

RECURSIVE DedupQuotes(_, _)
\* the dedup loop over file_quotes, seen being seen_quotes
DedupQuotes(quotes, seen) ==
    IF quotes = <<>> THEN <<>>
    ELSE LET key == QuoteKey(Head(quotes)) IN
         IF Truthy(Get(Head(quotes), "quote")) /\ key \notin seen
         THEN <<Head(quotes)>> \o DedupQuotes(Tail(quotes), seen \cup {key})
         ELSE DedupQuotes(Tail(quotes), seen)

\* the set lookups of the dedup raise TypeError on an unhashable url, filename or quote
DedupRaises(c) ==
    \/ \E i \in 1..Len(c.web) : ~Hashable(Or(Get(c.web[i], "url"), EmptyStr))
    \/ \E i \in 1..Len(c.files) :
          ~Hashable(Get(c.files[i], "filename")) \/ ~Hashable(Get(c.files[i], "quote"))

\* extract_sources_and_quotes(final_response): the pair it returns, or the exception
extract_sources_and_quotes(response) ==
    LET c == Collect(response)
    IN  IF DedupRaises(c) THEN [raised |-> TRUE, web |-> <<>>, files |-> <<>>]
        ELSE [raised |-> FALSE,
              web |-> Take(DedupWeb(c.web, {}), ItemCap),
              files |-> Take(DedupQuotes(c.files, {}), ItemCap)]

-----------------------------------------------------------------------------
(* Inputs of the injector *)

\* what stands between the line feeds of an answer: nothing, a blank (a space and
\* the carriage return of a "\r\n" terminator), a plain line, headings of the three
\* kinds (one followed by a space), a line that already carries a marker written by
\* the model
AnswerLines ==
    { <<>>,
      <<" ", CR>>,
      <<"a">>,
      <<"#", "a">>,
      <<"a", ":", " ">>,
      <<"a", FWColon>>,
      <<"a", " ", "[", "1", "]">> }

LineSeqs == UNION { [1..n -> AnswerLines] : n \in 0..MaxLines }

\* the answers: up to MaxLines of these joined by line feeds (an empty last one
\* makes a text that ends with a line feed)
AnswerTexts == { Join(<<LF>>, ls) : ls \in LineSeqs }

\* the i-th file quote and the i-th web source of an evidence list
FileItem(i) == PyDict([filename |-> PyStr(<<"f">> \o IntToStr(i)),
                      quote |-> PyStr(<<"q">> \o IntToStr(i))])
WebItem(i) == PyDict([title |-> PyStr(<<"t">> \o IntToStr(i)),
                     url |-> PyStr(<<"u">> \o IntToStr(i)),
                     snippet |-> PyStr(<<"s">> \o IntToStr(i))])

FilesLists == { [i \in 1..n |-> FileItem(i)] : n \in 0..MaxEvid }
WebLists == { [i \in 1..n |-> WebItem(i)] : n \in 0..MaxEvid }
MaxRefsArgs == (0..MaxRefsArg) \cup {DefaultMaxRefs}

NotExtracted == [raised |-> FALSE, web |-> <<>>, files |-> <<>>, called |-> FALSE]
NotCalled == [text |-> <<"?">>, refs_mapping |-> <<>>, called |-> FALSE]

\* a call that raises, by the text str(e) gives, and a call that returns
Raise(message) == [raised |-> TRUE, message |-> message]
Return(value) == [raised |-> FALSE, value |-> value]

\* the model client of parse_investment_thesis, by what its calls do: kind "responses"
\* for a client, "legacy" for client None and the openai module (importable or not);
\* create is the first call, retry the call with the older model
Client(kind, importable, create, retry) ==
    [kind |-> kind, importable |-> importable, create |-> create, retry |-> retry]
NoClient == Client("none", FALSE, Raise(<<>>), Raise(<<>>))
NotParsed == [called |-> FALSE]

\* no call of parse_investment_thesis
ThesisIdle == client = NoClient /\ thesis_result = NotParsed

\* cfg.setdefault("file_index", {}) of a config.json that has no file index yet
EmptyFileIndex == [fname \in {} |-> [file_id |-> 0, sha256 |-> <<>>]]

\* no run of the upload handler
NoReport == [ran |-> FALSE]

\* the file manager before any file of the sidebar was uploaded: an empty vector store
FilesIdle ==
    /\ vs_files = <<>>
    /\ files_created = 0
    /\ file_index = EmptyFileIndex
    /\ upload_key = 0
    /\ upload_report = NoReport

\* the sessions of the server process
Sessions == {"s1", "s2"}

\* DEFAULT_INBOUND_WORKSTREAMS as the module defines it
DefaultWorkstreams ==
    [name \in {"Inbound Email Screening", "Manual Upload Screening",
               "Advisor/Dealroom Sync", "Founder Webform Intake"} |->
        [status |-> IF name = "Advisor/Dealroom Sync" THEN "Paused" ELSE "Active"]]

\* a session whose script has not run yet: st.session_state has no key
NoSessionState == [initialised |-> FALSE]

\* the server process after the import of app.state, before any session
LabIdle ==
    /\ DEFAULT_INBOUND_WORKSTREAMS = DefaultWorkstreams
    /\ session_state = [s \in Sessions |-> NoSessionState]
    /\ clicks = 0
    /\ last_click = [button |-> "none"]

NotSanitized == [called |-> FALSE]

\* no call of sanitize_text
SanitizeIdle == raw_text = <<>> /\ sanitize_result = NotSanitized

SideIdle == FilesIdle /\ LabIdle /\ SanitizeIdle

\* no stream is open
NoStream == [deltas |-> <<>>, response |-> PyNone]

\* a call of the client: client.responses.stream or client.responses.create
ModelCall(call, raised) == [call |-> call, raised |-> raised, deltas |-> 0]

\* the chat script before the first chat input
TurnIdle ==
    /\ chat_history = <<>>
    /\ pc = "idle"
    /\ stream = NoStream
    /\ streamed_text = <<>> /\ sources_web = <<>> /\ quotes_files = <<>>
    /\ final_response_obj = PyNone
    /\ final_answer = <<>> /\ final_answer_with_cites = <<>> /\ refs_mapping = <<>>
    /\ bubble = <<>>
    /\ outcome = "none"
    /\ upstream = "none"
    /\ model_calls = <<>>
    /\ page = <<>>

InitInject ==
    /\ answer_text \in AnswerTexts
    /\ files_list \in FilesLists
    /\ web_list \in WebLists
    /\ max_refs \in MaxRefsArgs
    /\ inject_result = NotCalled
    /\ final_response = PyNone /\ extract_result = NotExtracted
    /\ TurnIdle
    /\ ThesisIdle
    /\ SideIdle

CallInject ==
    /\ ~inject_result.called
    /\ inject_result' =
         LET r == inject_inline_citations(answer_text, files_list, web_list, max_refs)
         IN  [text |-> r.text, refs_mapping |-> r.refs_mapping, called |-> TRUE]
    /\ UNCHANGED <<answer_text, files_list, web_list, max_refs, extractVars, turnVars, thesisVars, sideVars>>

NextInject == CallInject

SpecInject == InitInject /\ [][NextInject]_vars

-----------------------------------------------------------------------------
(* Inputs of the extractor: response objects of the model-calling service *)

Title(j) == PyStr(<<"t">> \o IntToStr(j))
Url(i) == PyStr(<<"u">> \o IntToStr(i))
Quote(i) == PyStr(<<"q">> \o IntToStr(i))
Filename(j) == PyStr(<<"f">> \o IntToStr(j))
Snippet == PyStr(<<"s">>)

\* web_search result items: url i under title j
WebR(i, j) == PyDict([title |-> Title(j), url |-> Url(i), snippet |-> Snippet])
\* file_search result items: quote i of file j
FileR(i, j) == PyDict([quote |-> Quote(i), file |-> PyDict([filename |-> Filename(j)])])

WebResultItems ==
    { WebR(1, 1),
      WebR(1, 2),                                 \* url 1 again, under another title
      WebR(ItemCap, 2),                           \* url ItemCap under another title
      PyDict([link |-> Url(2)]),                  \* "link" for "url", no title, no snippet
      PyDict([title |-> Title(1)]),               \* no url
      PyDict([url |-> PyList(<<Url(1)>>)]) }      \* a url that is a list

FileResultItems ==
    { FileR(1, 1),
      FileR(1, 2),                                \* quote 1 again, from another file
      PyDict([text |-> Quote(1), file |-> PyDict([name |-> Filename(1)])]),
      PyDict([quote |-> Quote(2)]),               \* no file
      PyDict([quote |-> EmptyStr, file |-> PyDict([filename |-> Filename(1)])]),
      PyStr(<<"x">>) }                            \* an item that is no dict

Annotations ==
    { PyDict([type |-> WebCitationType, url |-> Url(1), title |-> Title(2)]),
      PyDict([type |-> WebCitationType, title |-> Title(1)]),        \* no url
      PyDict([type |-> FileCitationType, quote |-> Quote(1),
              file |-> PyDict([filename |-> Filename(1)])]),
      PyDict([type |-> FileCitationType, quote |-> Quote(2), file |-> PyStr(<<"x">>)]),
      PyStr(<<"x">>) }                                               \* no dict

SeqsUpTo(S, n) == UNION { [1..k -> S] : k \in 0..n }

WebBlock(data) == PyObj([type |-> ToolResultType, tool_name |-> WebSearchTool, output |-> data])
FileBlock(data) == PyObj([type |-> ToolResultType, name |-> FileSearchTool, output |-> data])
TextBlock(anns) == PyObj([type |-> OutputTextType, annotations |-> anns])

\* tool results of ItemCap + 1 items: with distinct urls, and with url 1 twice
\* before the urls 2..ItemCap
LongWebList == PyList([i \in 1..(ItemCap + 1) |-> WebR(i, 1)])
LongWebListDup == PyList(<<WebR(1, 1)>> \o [i \in 1..ItemCap |-> WebR(i, 1)])

Blocks ==
    { WebBlock(PyList(l)) : l \in SeqsUpTo(WebResultItems, MaxItems) }
    \cup { FileBlock(PyList(l)) : l \in SeqsUpTo(FileResultItems, MaxItems) }
    \cup { TextBlock(PyList(l)) : l \in SeqsUpTo(Annotations, MaxItems) }
    \cup { WebBlock(LongWebList),
           WebBlock(LongWebListDup),
           WebBlock(PyDict([results |-> PyList(<<WebR(2, 1)>>)])),
           FileBlock(PyDict([results |-> PyNone])),        \* "results" holds None
           FileBlock(PyInt(<<"5">>)),                       \* neither dict nor list
           TextBlock(PyInt(<<"5">>)),                       \* annotations is a number
           PyObj([type |-> ToolResultType, name |-> PyStr(<<"x">>), output |-> PyList(<<WebR(1, 1)>>)]),
           PyObj(<<>>) }                                    \* a block without attributes

\* blocks of at most one item, to stand after another block
ShortBlocks ==
    { WebBlock(PyList(l)) : l \in SeqsUpTo(WebResultItems, 1) }
    \cup { FileBlock(PyList(l)) : l \in SeqsUpTo(FileResultItems, 1) }
    \cup { TextBlock(PyList(l)) : l \in SeqsUpTo(Annotations, 1) }

\* responses of one block, of a block followed by a short block, and responses
\* without a usable output
Responses ==
    { PyObj([output |-> PyList(<<a>>)]) : a \in Blocks }
    \cup { PyObj([output |-> PyList(<<a, b>>)]) : a \in Blocks, b \in ShortBlocks }
    \cup { PyNone, PyObj([output |-> PyNone]), PyObj([output |-> PyList(<<>>)]),
           PyObj([output |-> PyInt(<<"5">>)]) }

InitExtract ==
    /\ final_response \in Responses
    /\ extract_result = NotExtracted
    /\ answer_text = <<>> /\ files_list = <<>> /\ web_list = <<>> /\ max_refs = DefaultMaxRefs
    /\ inject_result = NotCalled
    /\ TurnIdle
    /\ ThesisIdle
    /\ SideIdle

CallExtract ==
    /\ ~extract_result.called
    /\ extract_result' =
         LET r == extract_sources_and_quotes(final_response)
         IN  [raised |-> r.raised, web |-> r.web, files |-> r.files, called |-> TRUE]
    /\ UNCHANGED <<final_response, injectVars, turnVars, thesisVars, sideVars>>

NextExtract == CallExtract

SpecExtract == InitExtract /\ [][NextExtract]_vars

-----------------------------------------------------------------------------
(* The chat turn, src/chatbot.py: references rendering *)

\* what an f-string writes for a value: the characters of a str, the digits of an int
Format(x) == CASE x.t = "str" -> x.v [] x.t = "int" -> x.v

\* x.strip() raises AttributeError unless x is a str
HasStrip(x) == x.t = "str"

RefsHeadingText == <<"*", "*", "R", "e", "f", "e", "r", "e", "n", "c", "e", "s", ":", "*", "*">>
Dash == <<" ", EmDash, " ">>

\* f" — {snippet}" if snippet else ""
SnippetSuffix(snippet) == IF Truthy(snippet) THEN Dash \o Format(snippet) ELSE <<>>

\* the filename and the quote a file pair is rendered with, before .strip()
RefFilename(src) == Or(Get(src, "filename"), FileName)
RefQuote(src) == Or(Or(Get(src, "quote"), Get(src, "text")), EmptyStr)

\* the line of a pair with every web pair written as a link, whatever its url
RenderRef_AlwaysLink(n, src, src_type) ==
    LET title == Or(Get(src, "title"), SourceTitle)
        url == Or(Get(src, "url"), EmptyStr)
        snippet == Or(Get(src, "snippet"), EmptyStr)
        label == <<"[">> \o IntToStr(n) \o <<"]", " ">>
    IN  IF src_type = "file"
        THEN label \o <<"*", "*">> \o Strip(RefFilename(src).v) \o <<"*", "*">>
             \o Dash \o Strip(RefQuote(src).v)
        ELSE label \o <<"[">> \o Format(title) \o <<"]", "(">> \o Format(url) \o <<")">>
             \o SnippetSuffix(snippet)

\* the line appended to refs_lines for the source src of kind src_type under number n
RenderRef(n, src, src_type) ==
    LET title == Or(Get(src, "title"), SourceTitle)
        url == Or(Get(src, "url"), EmptyStr)
        snippet == Or(Get(src, "snippet"), EmptyStr)
        label == <<"[">> \o IntToStr(n) \o <<"]", " ">>
    IN  IF src_type = "file"
        THEN label \o <<"*", "*">> \o Strip(RefFilename(src).v) \o <<"*", "*">>
             \o Dash \o Strip(RefQuote(src).v)
        ELSE IF Truthy(url)
        THEN label \o <<"[">> \o Format(title) \o <<"]", "(">> \o Format(url) \o <<")">>
             \o SnippetSuffix(snippet)
        ELSE label \o Format(title) \o SnippetSuffix(snippet)

\* the entries numbered by their position in the list, from 0
RefLine_FromZero(ref) == RenderRef(ref[1] - 1, ref[2], ref[3])

\* for n, src, src_type in refs_mapping: the line of one pair
RefLine(ref) == RenderRef(ref[1], ref[2], ref[3])

\* building refs_lines raises when the filename or the quote of a file pair is no str
RenderRaises(mapping) ==
    \E i \in 1..Len(mapping) :
        /\ mapping[i][3] = "file"
        /\ ~HasStrip(RefFilename(mapping[i][2])) \/ ~HasStrip(RefQuote(mapping[i][2]))

\* refs_lines
RefsLines(mapping) == [i \in 1..Len(mapping) |-> RefLine(mapping[i])]

\* the section appended without the test "if refs_mapping"
WithReferences_Unguarded(text, mapping) ==
    IF HasReferencesSection(text)
    THEN text \o <<LF, LF>> \o Join(<<LF>>, RefsLines(mapping))
    ELSE text \o <<LF, LF>> \o RefsHeadingText \o <<LF>> \o Join(<<LF>>, RefsLines(mapping))

\* a fresh heading whatever the text holds
WithReferences_AlwaysHeading(text, mapping) ==
    IF mapping = <<>> THEN text
    ELSE text \o <<LF, LF>> \o RefsHeadingText \o <<LF>> \o Join(<<LF>>, RefsLines(mapping))

\* step 3: the references section appended to the answer with its markers
WithReferences(text, mapping) ==
    IF mapping = <<>> THEN text
    ELSE IF HasReferencesSection(text)
    THEN text \o <<LF, LF>> \o Join(<<LF>>, RefsLines(mapping))
    ELSE text \o <<LF, LF>> \o RefsHeadingText \o <<LF>> \o Join(<<LF>>, RefsLines(mapping))

-----------------------------------------------------------------------------
(* The chat turn, src/chatbot.py: the script from the chat input on *)

\* replies of the model-calling service: the text it generates and the response
\* object it ends with
Reply(text, blocks) ==
    [text |-> text,
     response |-> PyObj([output |-> PyList(blocks \o <<PyObj([type |-> OutputTextType,
                                                            text |-> PyStr(text)])>>)])]

\* the text deltas of a stream: the text in two halves
Deltas(text) ==
    IF text = <<>> THEN <<>>
    ELSE IF Len(text) = 1 THEN <<text>>
    ELSE <<SubSeq(text, 1, Len(text) \div 2), SubSeq(text, (Len(text) \div 2) + 1, Len(text))>>

ReplyTexts ==
    { <<>>,
      <<"a">>,
      <<"a", LF, "a", LF, "a">>,
      <<"#", "a", LF, "a", LF, LF, "a", ":">>,
      <<"a", CR, LF, "a">>,
      <<" ", "a", " ", "[", "1", "]", LF>>,
      <<"a", CiteOpen, "x", CiteClose, "[", "t", "u", "r", "n", "1", "f", "i", "l", "e", "2", "]", ZeroWidth>>,
      <<"a", ":">>,
      <<"a", LF, "r", "e", "f", "e", "r", "e", "n", "c", "e", "s", ":", LF, "a">>,
      <<"a", LF, " ", "R", "E", "F", "E", "R", "E", "N", "C", "E", "S", " ", ":", " ", "a">>,
      <<"a", LF, "*", "*", "R", "e", "f", "e", "r", "e", "n", "c", "e", "s", ":", "*", "*", LF, "a">>,
      <<"a", CR, "r", "e", "f", "e", "r", "e", "n", "c", "e", "s", ":">>,
      <<"r", "e", "f", "e", "r", "e", "n", "c", "e", "s", LF, ":">> }

NoEvidence == <<>>
FileAndWeb == <<FileBlock(PyList(<<FileR(1, 1), FileR(2, 1)>>)), WebBlock(PyList(<<WebR(1, 1)>>))>>

ReplyEvidence ==
    { \* a quote of two lines
      <<FileBlock(PyList(<<PyDict([quote |-> PyStr(<<"q", LF, "r">>),
                                   file |-> PyDict([filename |-> Filename(1)])])>>))>>,
      \* a web source without title and snippet, a quote without file name
      <<WebBlock(PyList(<<PyDict([link |-> Url(2)])>>)), FileBlock(PyList(<<PyDict([text |-> Quote(2)])>>))>>,
      \* a file name that is a number
      <<FileBlock(PyList(<<PyDict([quote |-> Quote(1),
                                   file |-> PyDict([filename |-> PyInt(<<"5">>)])])>>))>>,
      \* a url that is a list
      <<WebBlock(PyList(<<PyDict([url |-> PyList(<<Url(1)>>)])>>))>> }

ModelReplies ==
    { Reply(t, e) : t \in ReplyTexts, e \in {NoEvidence, FileAndWeb} }
    \cup { Reply(<<"a", LF, "a", LF, "a">>, e) : e \in ReplyEvidence }

UserInputs == { <<"q">> }

ErrorBox == <<"E", "r", "r", "o", "r", ":">>

NumTurns == Cardinality({ i \in 1..Len(chat_history) : chat_history[i].role = "user" })

\* final_text: the text of the output_text items of resp.output
RECURSIVE OutputText(_)
OutputText(items) ==
    IF items = <<>> THEN <<>>
    ELSE (IF GetAttr(Head(items), "type", EmptyStr) = OutputTextType
          THEN Or(GetAttr(Head(items), "text", EmptyStr), EmptyStr).v
          ELSE <<>>) \o OutputText(Tail(items))

Init ==
    /\ TurnIdle
    /\ ThesisIdle
    /\ SideIdle
    /\ answer_text = <<>> /\ files_list = <<>> /\ web_list = <<>> /\ max_refs = DefaultMaxRefs
    /\ inject_result = NotCalled
    /\ final_response = PyNone /\ extract_result = NotExtracted

\* if user_input: the user entry is appended and shown, the locals of the turn are set
UserInput ==
    /\ pc = "idle"
    /\ NumTurns < MaxTurns + (IF outcome = "raised" THEN MaxFailedTurns ELSE 0)
    /\ \E user_input \in UserInputs :
          chat_history' = Append(chat_history, [role |-> "user", content |-> sanitize_text(user_input)])
    /\ streamed_text' = <<>> /\ sources_web' = <<>> /\ quotes_files' = <<>>
    /\ final_response_obj' = PyNone
    /\ final_answer' = <<>> /\ final_answer_with_cites' = <<>> /\ refs_mapping' = <<>>
    /\ bubble' = <<>>
    /\ outcome' = "none"
    /\ upstream' = "none"
    /\ model_calls' = <<>>
    /\ page' = chat_history
    /\ stream' = NoStream
    /\ pc' = "stream"
    /\ UNCHANGED <<injectVars, extractVars, thesisVars, sideVars>>

\* client.responses.stream(...) opens a stream
StreamOpen ==
    /\ pc = "stream"
    /\ \E reply \in ModelReplies :
          stream' = [deltas |-> Deltas(reply.text), response |-> reply.response]
    /\ upstream' = "stream"
    /\ model_calls' = Append(model_calls, ModelCall("stream", FALSE))
    /\ pc' = "streaming"
    /\ page' = page
    /\ UNCHANGED <<chat_history, streamed_text, sources_web, quotes_files, final_response_obj,
                   final_answer, final_answer_with_cites, refs_mapping, bubble, outcome,
                   injectVars, extractVars, thesisVars, sideVars>>

\* event.type == "response.output_text.delta"
StreamDelta ==
    /\ pc = "streaming"
    /\ stream.deltas # <<>>
    /\ streamed_text' = streamed_text \o Head(stream.deltas)
    /\ bubble' = sanitize_text(streamed_text')
    /\ stream' = [stream EXCEPT !.deltas = Tail(@)]
    /\ model_calls' = [model_calls EXCEPT ![Len(model_calls)].deltas = @ + 1]
    /\ page' = page
    /\ UNCHANGED <<chat_history, pc, sources_web, quotes_files, final_response_obj,
                   final_answer, final_answer_with_cites, refs_mapping, outcome, upstream,
                   injectVars, extractVars, thesisVars, sideVars>>

\* event.type == "response.error"
StreamErrorEvent ==
    /\ pc = "streaming"
    /\ bubble # ErrorBox
    /\ bubble' = ErrorBox
    /\ page' = page
    /\ UNCHANGED <<chat_history, pc, stream, streamed_text, sources_web, quotes_files,
                   final_response_obj, final_answer, final_answer_with_cites, refs_mapping,
                   outcome, upstream, model_calls, injectVars, extractVars, thesisVars, sideVars>>

\* opening the stream, an event, until_done or get_final_response raises: the with
\* block closes the stream, except Exception takes over
StreamRaises ==
    /\ pc \in {"stream", "streaming"}
    /\ pc' = "fallback"
    /\ upstream' = "stream"
    /\ model_calls' = IF pc = "stream"
                      THEN Append(model_calls, ModelCall("stream", TRUE))
                      ELSE [model_calls EXCEPT ![Len(model_calls)].raised = TRUE]
    /\ stream' = NoStream
    /\ page' = page
    /\ UNCHANGED <<chat_history, streamed_text, sources_web, quotes_files,
                   final_response_obj, final_answer, final_answer_with_cites, refs_mapping,
                   bubble, outcome, injectVars, extractVars, thesisVars, sideVars>>

\* steps 1 to 5 after the model call, from the streamed text and the evidence: the
\* answer is sanitized, the markers injected, the references appended; the bubble
\* shows the result and the result is appended to the history, unless the rendering raises
Reconcile(text, web, files) ==
    LET answer == sanitize_text(text)
        inj == inject_inline_citations(answer, files, web, DefaultMaxRefs)
    IN  /\ final_answer' = answer
        /\ refs_mapping' = inj.refs_mapping
        /\ IF RenderRaises(inj.refs_mapping)
           THEN /\ final_answer_with_cites' = inj.text
                /\ outcome' = "raised"
                /\ UNCHANGED chat_history
           ELSE /\ final_answer_with_cites' = WithReferences(inj.text, inj.refs_mapping)
                /\ outcome' = "done"
                /\ chat_history' = Append(chat_history,
                      [role |-> "assistant", content |-> final_answer_with_cites'])

\* the stream ends: get_final_response, extract_sources_and_quotes inside the try
\* (an exception of the extraction leads to the fallback), then steps 1 to 5
StreamDone ==
    /\ pc = "streaming"
    /\ stream.deltas = <<>>
    /\ final_response_obj' = stream.response
    /\ LET ex == extract_sources_and_quotes(stream.response) IN
       IF ex.raised
       THEN /\ pc' = "fallback"
            /\ UNCHANGED <<chat_history, streamed_text, sources_web, quotes_files, final_answer,
                           final_answer_with_cites, refs_mapping, bubble, outcome>>
       ELSE /\ sources_web' = ex.web
            /\ quotes_files' = ex.files
            /\ Reconcile(streamed_text, ex.web, ex.files)
            /\ bubble' = IF outcome' = "done" THEN final_answer_with_cites' ELSE bubble
            /\ pc' = "idle"
            /\ UNCHANGED streamed_text
    /\ stream' = NoStream
    /\ page' = page
    /\ UNCHANGED <<upstream, model_calls, injectVars, extractVars, thesisVars, sideVars>>

\* a fallback that appends the text of its response to what the stream had delivered
FallbackReturns_KeepsPartial ==
    /\ pc = "fallback"
    /\ \E reply \in ModelReplies :
          LET resp == reply.response
              text == sanitize_text(streamed_text \o
                        OutputText(Elements(Or(GetAttr(resp, "output", PyNone), PyList(<<>>)))))
              ex == extract_sources_and_quotes(resp)
          IN  /\ streamed_text' = text
              /\ final_response_obj' = resp
              /\ IF ex.raised
                 THEN /\ bubble' = text
                      /\ outcome' = "raised"
                      /\ UNCHANGED <<chat_history, sources_web, quotes_files, final_answer,
                                     final_answer_with_cites, refs_mapping>>
                 ELSE /\ sources_web' = ex.web
                      /\ quotes_files' = ex.files
                      /\ Reconcile(text, ex.web, ex.files)
                      /\ bubble' = IF outcome' = "done" THEN final_answer_with_cites' ELSE text
    /\ upstream' = "create"
    /\ model_calls' = Append(model_calls, ModelCall("create", FALSE))
    /\ pc' = "idle"
    /\ page' = page
    /\ UNCHANGED <<stream, injectVars, extractVars, thesisVars, sideVars>>

\* the fallback call client.responses.create(...) returns: the text of the response is
\* sanitized and shown, the evidence extracted (no try here), then steps 1 to 5
FallbackReturns ==
    /\ pc = "fallback"
    /\ \E reply \in ModelReplies :
          LET resp == reply.response
              text == sanitize_text(OutputText(Elements(Or(GetAttr(resp, "output", PyNone), PyList(<<>>)))))
              ex == extract_sources_and_quotes(resp)
          IN  /\ streamed_text' = text
              /\ final_response_obj' = resp
              /\ IF ex.raised
                 THEN /\ bubble' = text
                      /\ outcome' = "raised"
                      /\ UNCHANGED <<chat_history, sources_web, quotes_files, final_answer,
                                     final_answer_with_cites, refs_mapping>>
                 ELSE /\ sources_web' = ex.web
                      /\ quotes_files' = ex.files
                      /\ Reconcile(text, ex.web, ex.files)
                      /\ bubble' = IF outcome' = "done" THEN final_answer_with_cites' ELSE text
    /\ upstream' = "create"
    /\ model_calls' = Append(model_calls, ModelCall("create", FALSE))
    /\ pc' = "idle"
    /\ page' = page
    /\ UNCHANGED <<stream, injectVars, extractVars, thesisVars, sideVars>>

\* the fallback call raises: nothing catches it, the run of the script ends there
FallbackRaises ==
    /\ pc = "fallback"
    /\ upstream' = "failed"
    /\ model_calls' = Append(model_calls, ModelCall("create", TRUE))
    /\ outcome' = "raised"
    /\ pc' = "idle"
    /\ page' = page
    /\ UNCHANGED <<chat_history, stream, streamed_text, sources_web, quotes_files,
                   final_response_obj, final_answer, final_answer_with_cites, refs_mapping,
                   bubble, injectVars, extractVars, thesisVars, sideVars>>

\* a run without chat input that reconciles the last stored answer once more
Rerun_Reconciles ==
    /\ pc = "idle"
    /\ chat_history' =
          IF chat_history = <<>> THEN chat_history
          ELSE [chat_history EXCEPT ![Len(chat_history)].content = WithReferences(@, refs_mapping)]
    /\ page' = chat_history'
    /\ UNCHANGED <<pc, stream, streamed_text, sources_web, quotes_files,
                   final_response_obj, final_answer, final_answer_with_cites, refs_mapping,
                   bubble, outcome, upstream, model_calls, injectVars, extractVars, thesisVars, sideVars>>

\* a run of the script without chat input: the history is rendered, entry by entry,
\* st.chat_input returns None and the turn is not entered
Rerun ==
    /\ pc = "idle"
    /\ page' = chat_history
    /\ UNCHANGED <<chat_history, pc, stream, streamed_text, sources_web, quotes_files,
                   final_response_obj, final_answer, final_answer_with_cites, refs_mapping,
                   bubble, outcome, upstream, model_calls, injectVars, extractVars, thesisVars, sideVars>>

Next ==
    \/ Rerun
    \/ UserInput
    \/ StreamOpen
    \/ StreamDelta
    \/ StreamErrorEvent
    \/ StreamRaises
    \/ StreamDone
    \/ FallbackReturns
    \/ FallbackRaises

Spec == Init /\ [][Next]_vars

-----------------------------------------------------------------------------
(* The references step of the chat turn taken by itself, src/chatbot.py 569-597: *)
(* the script stands after inject_inline_citations, with the marker pairs it    *)
(* returned for evidence lists of complete items                                 *)

RenderFilenames == { <<"f", "1">>, <<" ", "f", "1", " ">> }
RenderQuotes == { <<"q", "1">>, <<" ", "q", "1", LF>> }
RenderFiles ==
    { PyDict([filename |-> PyStr(f), quote |-> PyStr(q)]) : f \in RenderFilenames, q \in RenderQuotes }
\* web items with and without a url, with and without a snippet
RenderWebs ==
    { PyDict([title |-> Title(1), url |-> u, snippet |-> sn]) :
        u \in {Url(1), EmptyStr}, sn \in {Snippet, EmptyStr} }
\* answers of two eligible lines, one of them below a "references:" line
RenderAnswers ==
    { <<"a", LF, "a">>,
      <<"r", "e", "f", "e", "r", "e", "n", "c", "e", "s", ":", LF, "a", LF, "a">> }

InitRender ==
    /\ \E fl \in SeqsUpTo(RenderFiles, MaxEvid), wl \in SeqsUpTo(RenderWebs, MaxEvid),
          answer \in RenderAnswers :
          LET inj == inject_inline_citations(answer, fl, wl, DefaultMaxRefs) IN
          /\ Len(fl) + Len(wl) \in 1..MaxEvid
          /\ quotes_files = fl /\ sources_web = wl
          /\ streamed_text = answer /\ final_answer = answer
          /\ final_answer_with_cites = inj.text
          /\ refs_mapping = inj.refs_mapping
          /\ bubble = answer
    /\ chat_history = <<[role |-> "user", content |-> <<"q">>]>>
    /\ pc = "references"
    /\ stream = NoStream
    /\ final_response_obj = PyNone
    /\ outcome = "none"
    /\ upstream = "stream"
    /\ model_calls = <<ModelCall("stream", FALSE)>>
    /\ page = <<>>
    /\ ThesisIdle
    /\ SideIdle
    /\ answer_text = <<>> /\ files_list = <<>> /\ web_list = <<>> /\ max_refs = DefaultMaxRefs
    /\ inject_result = NotCalled
    /\ final_response = PyNone /\ extract_result = NotExtracted

\* steps 3 to 5: if refs_mapping, the reference lines are built and appended; the
\* bubble shows the result and the result is appended to the history
RenderReferences ==
    /\ pc = "references"
    /\ IF RenderRaises(refs_mapping)
       THEN /\ outcome' = "raised"
            /\ UNCHANGED <<final_answer_with_cites, bubble, chat_history>>
       ELSE /\ final_answer_with_cites' = WithReferences(final_answer_with_cites, refs_mapping)
            /\ bubble' = final_answer_with_cites'
            /\ chat_history' = Append(chat_history,
                  [role |-> "assistant", content |-> final_answer_with_cites'])
            /\ outcome' = "done"
    /\ pc' = "idle"
    /\ page' = page
    /\ UNCHANGED <<stream, streamed_text, sources_web, quotes_files, final_response_obj,
                   final_answer, refs_mapping, upstream, model_calls, injectVars, extractVars,
                   thesisVars, sideVars>>

NextRender == RenderReferences

SpecRender == InitRender /\ [][NextRender]_vars

-----------------------------------------------------------------------------
(* parse_investment_thesis, src/app/services.py *)

Euro == "U+20AC"
Backtick == "U+0060"
Backslash == "\\"
WarningSign == <<"U+26A0", "U+FE0F">>
Letters ==
    {"a", "b", "c", "d", "e", "f", "g", "h", "i", "j", "k", "l", "m", "n", "o", "p", "q", "r",
     "s", "t", "u", "v", "w", "x", "y", "z", "A", "B", "C", "D", "E", "F", "G", "H", "I", "J",
     "K", "L", "M", "N", "O", "P", "Q", "R", "S", "T", "U", "V", "W", "X", "Y", "Z"}

\* a bool, and a float by its decimal repr such as 7.9
PyBool(b) == [t |-> "bool", v |-> b]
PyFloat(repr) == [t |-> "float", v |-> repr]

AttributeError == <<"A", "t", "t", "r", "i", "b", "u", "t", "e", "E", "r", "r", "o", "r">>
LookupError == <<"L", "o", "o", "k", "u", "p", "E", "r", "r", "o", "r">>
TypeError == <<"T", "y", "p", "e", "E", "r", "r", "o", "r">>
ValueError == <<"V", "a", "l", "u", "e", "E", "r", "r", "o", "r">>
ImportError == <<"I", "m", "p", "o", "r", "t", "E", "r", "r", "o", "r">>

RECURSIVE DigitsValue(_)
\* the number a run of decimal digits writes
DigitsValue(ds) ==
    IF ds = <<>> THEN 0
    ELSE 10 * DigitsValue(SubSeq(ds, 1, Len(ds) - 1))
         + (CHOOSE d \in 0..9 : Digits[d + 1] = ds[Len(ds)])

AllDigits(ds) == ds # <<>> /\ \A i \in 1..Len(ds) : IsDigit(ds[i])

\* the decimal repr of an int, and the int a signed decimal repr writes
Repr(n) == IF n < 0 THEN <<"-">> \o IntToStr(0 - n) ELSE IntToStr(n)
SignedValue(s) == IF Head(s) = "-" THEN 0 - DigitsValue(Tail(s)) ELSE DigitsValue(s)
IntValue(x) == SignedValue(x.v)

\* the part of a float repr before the point
WholePart(repr) ==
    SubSeq(repr, 1, (CHOOSE i \in 1..Len(repr) : repr[i] = "." /\ \A j \in 1..(i - 1) : repr[j] # ".") - 1)

\* int(x): the int itself, 0 or 1 of a bool, a float cut towards zero, a str of an
\* optional sign and decimal digits between whitespace; TypeError or ValueError otherwise
ToInt(x) ==
    CASE x.t = "int" -> Return(IntValue(x))
      [] x.t = "bool" -> Return(IF x.v THEN 1 ELSE 0)
      [] x.t = "float" -> Return(SignedValue(WholePart(x.v)))
      [] x.t = "str" ->
            LET s == Strip(x.v)
                digits == IF s # <<>> /\ Head(s) \in {"+", "-"} THEN Tail(s) ELSE s
            IN  IF AllDigits(digits)
                THEN Return(IF Head(s) = "-" THEN 0 - DigitsValue(digits) ELSE DigitsValue(digits))
                ELSE Raise(ValueError)
      [] OTHER -> Raise(TypeError)

\* str(x) of a str, an int, a float or a bool
ToStr(x) ==
    CASE x.t = "bool" -> IF x.v THEN <<"T", "r", "u", "e">> ELSE <<"F", "a", "l", "s", "e">>
      [] OTHER -> x.v

\* defaults()
defaults ==
    PyDict([sectors |-> PyList(<<PyStr(<<"S", "a", "a", "S">>),
            PyStr(<<"A", "I">>),
            PyStr(<<"H", "R", " ", "T", "e", "c", "h">>)>>),
            geography |-> PyList(<<PyStr(<<"C", "E", "E">>),
            PyStr(<<"D", "A", "C", "H">>)>>),
            stages |-> PyList(<<PyStr(<<"S", "e", "e", "d">>),
            PyStr(<<"S", "e", "r", "i", "e", "s", " ", "A">>)>>),
            ticket_min |-> PyInt(<<"3", "0", "0", "0", "0", "0">>),
            ticket_max |-> PyInt(<<"2", "0", "0", "0", "0", "0", "0">>),
            scoring |-> PyDict([team_quality |-> PyInt(<<"9">>),
                                tech_readiness |-> PyInt(<<"8">>),
                                market_size |-> PyInt(<<"9">>),
                                geography_fit |-> PyInt(<<"1", "0">>),
                                traction |-> PyInt(<<"5">>),
                                ticket_fit |-> PyInt(<<"5">>)]),
            flags |-> PyList(<<PyStr(<<"F", "l", "a", "g", " ", "i", "f", " ", "M", "R", "R", " ", "<", " ", Euro, "2", "0", "k">>),
            PyStr(<<"F", "l", "a", "g", " ", "i", "f", " ", "h", "a", "r", "d", "w", "a", "r", "e", "-", "i",
        "n", "t", "e", "n", "s", "i", "v", "e">>),
            PyStr(<<"F", "l", "a", "g", " ", "i", "f", " ", "f", "o", "u", "n", "d", "e", "r", " ", "n", "o",
        "t", " ", "t", "e", "c", "h", "n", "i", "c", "a", "l">>)>>),
            rejects |-> PyList(<<PyStr(<<"R", "e", "j", "e", "c", "t", " ", "i", "f", " ", "o", "u", "t", "s", "i", "d", "e", " ",
        "C", "E", "E">>),
            PyStr(<<"R", "e", "j", "e", "c", "t", " ", "i", "f", " ", "n", "o", " ", "r", "e", "v", "e", "n",
        "u", "e", " ", "(", "f", "o", "r", " ", "S", "e", "e", "d", "+", ")">>)>>),
            notes |-> PyStr(<<"W", "e", " ", "p", "r", "e", "f", "e", "r", " ", "f", "o", "u", "n", "d", "e", "r", "-",
        "l", "e", "d", " ", "c", "o", "m", "p", "a", "n", "i", "e", "s", ",", " ", "a",
        "v", "o", "i", "d", " ", "g", "o", "v", "e", "r", "n", "m", "e", "n", "t", "-",
        "h", "e", "a", "v", "y", " ", "s", "e", "c", "t", "o", "r", "s", ".">>)])

\* the keys of the schema, in the order the JSON texts write them
JsonKeys ==
    <<[key |-> "sectors", text |-> <<"s", "e", "c", "t", "o", "r", "s">>],
      [key |-> "geography", text |-> <<"g", "e", "o", "g", "r", "a", "p", "h", "y">>],
      [key |-> "stages", text |-> <<"s", "t", "a", "g", "e", "s">>],
      [key |-> "ticket_min", text |-> <<"t", "i", "c", "k", "e", "t", "_", "m", "i", "n">>],
      [key |-> "ticket_max", text |-> <<"t", "i", "c", "k", "e", "t", "_", "m", "a", "x">>],
      [key |-> "scoring", text |-> <<"s", "c", "o", "r", "i", "n", "g">>],
      [key |-> "team_quality", text |-> <<"t", "e", "a", "m", "_", "q", "u", "a", "l", "i", "t", "y">>],
      [key |-> "tech_readiness", text |-> <<"t", "e", "c", "h", "_", "r", "e", "a", "d", "i", "n", "e", "s", "s">>],
      [key |-> "market_size", text |-> <<"m", "a", "r", "k", "e", "t", "_", "s", "i", "z", "e">>],
      [key |-> "geography_fit", text |-> <<"g", "e", "o", "g", "r", "a", "p", "h", "y", "_", "f", "i", "t">>],
      [key |-> "traction", text |-> <<"t", "r", "a", "c", "t", "i", "o", "n">>],
      [key |-> "ticket_fit", text |-> <<"t", "i", "c", "k", "e", "t", "_", "f", "i", "t">>],
      [key |-> "flags", text |-> <<"f", "l", "a", "g", "s">>],
      [key |-> "rejects", text |-> <<"r", "e", "j", "e", "c", "t", "s">>],
      [key |-> "notes", text |-> <<"n", "o", "t", "e", "s">>]>>

RECURSIVE Dumps(_)
\* the minified JSON text of a value
Dumps(x) ==
    CASE x.t = "none" -> <<"n", "u", "l", "l">>
      [] x.t = "bool" -> IF x.v THEN <<"t", "r", "u", "e">> ELSE <<"f", "a", "l", "s", "e">>
      [] x.t \in {"int", "float"} -> x.v
      [] x.t = "str" -> <<"\"">> \o x.v \o <<"\"">>
      [] x.t = "list" ->
            <<"[">> \o Join(<<",">>, [i \in 1..Len(x.v) |-> Dumps(x.v[i])]) \o <<"]">>
      [] x.t = "dict" ->
            LET present == SelectSeq(JsonKeys, LAMBDA k : k.key \in DOMAIN x.v)
            IN  <<"{">>
                \o Join(<<",">>, [i \in 1..Len(present) |->
                                    <<"\"">> \o present[i].text \o <<"\"", ":">>
                                    \o Dumps(x.v[present[i].key])])
                \o <<"}">>

\* JSON values the model may answer with
AllScores(v) ==
    PyDict([team_quality |-> v, tech_readiness |-> v, market_size |-> v,
            geography_fit |-> v, traction |-> v, ticket_fit |-> v])
Num(n) == PyInt(Repr(n))
Word(c) == PyStr(<<c>>)

ScoreValues ==
    { Num(7), Num(0), Num(10), Num(15), Num(0 - 3), PyFloat(<<"7", ".", "9">>),
      PyStr(<<"8">>), Word("x"), PyNone, PyBool(TRUE), PyList(<<Num(7)>>) }

TicketPairs ==
    { <<Num(100), Num(500)>>, <<Num(500), Num(100)>>, <<Num(0), Num(0)>>,
      <<Num(0 - 1), Num(5)>>, <<Num(5), Num(0 - 1)>>,
      <<PyStr(<<"2", "0", "0">>), PyFloat(<<"3", "0", "0", ".", "5">>)>>,
      <<Num(100), PyNone>>, <<Word("x"), Num(500)>>, <<PyBool(TRUE), Num(2)>> }

JsonObjects ==
    { \* an object without any key of the schema
      EmptyDict,
      \* objects without a "scoring" object
      PyDict([notes |-> Word("n")]),
      PyDict([scoring |-> PyNone]),
      PyDict([scoring |-> PyList(<<Num(7)>>)]),
      PyDict([scoring |-> Num(5)]),
      \* an empty "scoring" object, and one that names some of the dimensions
      PyDict([scoring |-> EmptyDict]),
      PyDict([scoring |-> PyDict([team_quality |-> Num(3), traction |-> Num(12)])]),
      \* every key present
      PyDict([sectors |-> PyList(<<Word("s")>>), geography |-> PyList(<<Word("g")>>),
              stages |-> PyList(<<Word("t")>>), ticket_min |-> Num(100), ticket_max |-> Num(500),
              scoring |-> AllScores(Num(7)), flags |-> PyList(<<Word("f")>>),
              rejects |-> PyList(<<Word("r")>>), notes |-> Word("n")]),
      \* lists with elements that are dropped, a list that is no list, notes that are no str
      PyDict([sectors |-> PyList(<<PyStr(<<" ", "s", " ">>), PyStr(<<" ">>), Num(3), PyNone,
                                    PyList(<<Word("x")>>), PyBool(TRUE), PyFloat(<<"1", ".", "5">>)>>),
              geography |-> Word("g"), notes |-> Num(5), scoring |-> EmptyDict]) }
    \cup { PyDict([scoring |-> AllScores(v)]) : v \in ScoreValues }
    \cup { PyDict([ticket_min |-> p[1], ticket_max |-> p[2], scoring |-> EmptyDict]) : p \in TicketPairs }
    \cup { PyDict([ticket_min |-> Num(100), scoring |-> EmptyDict]) }

JsonValues ==
    JsonObjects \cup { PyList(<<Num(1)>>), Num(5), Word("s"), PyNone, PyBool(TRUE) }

\* json.loads(text) on the texts of the model: the value the text writes, ValueError
\* for a text that is no JSON
JsonLoads(text) ==
    IF \E v \in JsonValues : Dumps(v) = text
    THEN Return(CHOOSE v \in JsonValues : Dumps(v) = text)
    ELSE Raise(ValueError)

Fence == <<Backtick, Backtick, Backtick>>
AtFence(s, i) == i + 2 <= Len(s) /\ SubSeq(s, i, i + 2) = Fence

RECURSIVE LettersEnd(_, _)
\* [a-zA-Z]* from position i: the position after the letters
LettersEnd(s, i) == IF i <= Len(s) /\ s[i] \in Letters THEN LettersEnd(s, i + 1) ELSE i

\* the alternative ^(fence)[a-zA-Z]*\\n of the pattern at position i: the position after the match, 0 for no match; the
\* pattern ends with a backslash and the letter n
OpenFenceEnd(s, i) ==
    LET j == LettersEnd(s, i + 3)
    IN  IF /\ i = 1 \/ s[i - 1] = LF
           /\ AtFence(s, i)
           /\ j + 1 <= Len(s)
           /\ s[j] = Backslash /\ s[j + 1] = "n"
        THEN j + 2 ELSE 0

\* the alternative (fence)$ of the pattern at position i, $ at the end of the text or of a line
CloseFence(s, i) == AtFence(s, i) /\ (i + 3 > Len(s) \/ s[i + 3] = LF)

RECURSIVE RemoveFences(_, _)
\* re.sub of the code fence pattern by "", flags=re.MULTILINE, from position i on
RemoveFences(s, i) ==
    IF i > Len(s) THEN <<>>
    ELSE IF OpenFenceEnd(s, i) # 0 THEN RemoveFences(s, OpenFenceEnd(s, i))
    ELSE IF CloseFence(s, i) THEN RemoveFences(s, i + 3)
    ELSE <<s[i]>> \o RemoveFences(s, i + 1)

\* text.find(c) and text.rfind(c), counted from 1; 0 for -1
Find(s, c) ==
    IF \E i \in 1..Len(s) : s[i] = c
    THEN CHOOSE i \in 1..Len(s) : s[i] = c /\ \A j \in 1..(i - 1) : s[j] # c
    ELSE 0
RFind(s, c) ==
    IF \E i \in 1..Len(s) : s[i] = c
    THEN CHOOSE i \in 1..Len(s) : s[i] = c /\ \A j \in (i + 1)..Len(s) : s[j] # c
    ELSE 0

\* parse_json_from_text(text): the value json.loads gives, or None
parse_json_from_text(text0) ==
    LET stripped == Strip(text0)
        text == IF StartsWith(stripped, Fence) THEN Strip(RemoveFences(stripped, 1)) ELSE stripped
        direct == JsonLoads(text)
        start == Find(text, "{")
        end == RFind(text, "}")
        candidate == JsonLoads(SubSeq(text, start, end))
    IN  IF ~direct.raised THEN direct.value
        ELSE IF start # 0 /\ end # 0 /\ end > start /\ ~candidate.raised THEN candidate.value
        ELSE PyNone

\* valid_int that gives 0 for what int() rejects
valid_int_ZeroForInvalid(x) == IF ToInt(x).raised THEN PyInt(<<"0">>) ELSE PyInt(Repr(ToInt(x).value))

\* valid_int(x)
valid_int(x) == IF ToInt(x).raised THEN PyNone ELSE PyInt(Repr(ToInt(x).value))

\* clamp010 that keeps the parsed number as it is
clamp010_Unclamped(v, fallback) ==
    IF ToInt(v).raised THEN fallback ELSE PyInt(Repr(ToInt(v).value))

\* clamp010(v, fallback)
clamp010(v, fallback) ==
    IF ToInt(v).raised THEN fallback
    ELSE PyInt(Repr(IF ToInt(v).value < 0 THEN 0
                    ELSE IF ToInt(v).value > 10 THEN 10 ELSE ToInt(v).value))

RECURSIVE CleanList(_)
\* [str(x).strip() for x in xs if isinstance(x, (str, int, float)) and str(x).strip()]
CleanList(xs) ==
    IF xs = <<>> THEN <<>>
    ELSE (IF Head(xs).t \in {"str", "int", "float", "bool"} /\ Strip(ToStr(Head(xs))) # <<>>
          THEN <<PyStr(Strip(ToStr(Head(xs))))>>
          ELSE <<>>) \o CleanList(Tail(xs))

ListKeys == {"sectors", "geography", "stages", "flags", "rejects"}
ScoringKeys ==
    {"team_quality", "tech_readiness", "market_size", "geography_fit", "traction", "ticket_fit"}
ResultKeys == ListKeys \cup {"ticket_min", "ticket_max", "scoring", "notes"}

\* the second arguments of base_scoring.get(...)
ScoringFallback ==
    [team_quality |-> PyInt(<<"9">>), tech_readiness |-> PyInt(<<"8">>),
     market_size |-> PyInt(<<"9">>), geography_fit |-> PyInt(<<"1", "0">>),
     traction |-> PyInt(<<"5">>), ticket_fit |-> PyInt(<<"5">>)]

\* normalize_merge(base_defaults, parsed): parsed_scoring.get raises AttributeError
\* when parsed is a dict whose "scoring" is no dict
normalize_merge(base_defaults, parsed) ==
    LET tmin == IF IsDict(parsed) THEN valid_int(Get(parsed, "ticket_min")) ELSE PyNone
        tmax == IF IsDict(parsed) THEN valid_int(Get(parsed, "ticket_max")) ELSE PyNone
        tickets == /\ tmin.t = "int" /\ tmax.t = "int"
                   /\ IntValue(tmin) >= 0 /\ IntValue(tmax) >= 0
                   /\ IntValue(tmax) >= IntValue(tmin)
        parsed_scoring == IF IsDict(parsed) THEN Get(parsed, "scoring") ELSE EmptyDict
        base_scoring == Or(Get(base_defaults, "scoring"), EmptyDict)
        result ==
            [key \in DOMAIN base_defaults.v \cup ResultKeys |->
                CASE key \in ListKeys ->
                        IF IsDict(parsed) /\ Get(parsed, key).t = "list"
                        THEN PyList(CleanList(Get(parsed, key).v))
                        ELSE PyList(<<>>)
                  [] key = "ticket_min" -> IF tickets THEN tmin ELSE PyInt(<<"0">>)
                  [] key = "ticket_max" ->
                        IF tickets THEN tmax ELSE PyInt(<<"1", "0", "0", "0", "0", "0", "0">>)
                  [] key = "scoring" ->
                        PyDict([dim \in ScoringKeys |->
                                  clamp010(Get(parsed_scoring, dim),
                                           IF dim \in DOMAIN base_scoring.v
                                           THEN base_scoring.v[dim] ELSE ScoringFallback[dim])])
                  [] key = "notes" ->
                        IF IsDict(parsed) /\ Get(parsed, "notes").t = "str"
                        THEN Get(parsed, "notes") ELSE EmptyStr
                  [] OTHER -> base_defaults.v[key]]
    IN  IF IsDict(parsed_scoring) THEN Return(PyDict(result)) ELSE Raise(AttributeError)

\* o.name, d[key] and x[0] along a chain of accesses: the first that raises ends the chain
AttrOf(r, name) ==
    IF r.raised THEN r
    ELSE IF r.value.t = "obj" /\ name \in DOMAIN r.value.v THEN Return(r.value.v[name])
    ELSE Raise(AttributeError)
KeyOf(r, key) ==
    IF r.raised THEN r
    ELSE IF r.value.t # "dict" THEN Raise(TypeError)
    ELSE IF key \in DOMAIN r.value.v THEN Return(r.value.v[key])
    ELSE Raise(LookupError)
FirstOf(r) ==
    IF r.raised THEN r
    ELSE IF r.value.t = "list" /\ r.value.v # <<>> THEN Return(r.value.v[1])
    ELSE IF r.value.t = "str" /\ r.value.v # <<>> THEN Return(PyStr(<<r.value.v[1]>>))
    ELSE IF r.value.t \in {"list", "str", "dict"} THEN Raise(LookupError)
    ELSE Raise(TypeError)

\* txt of the client path: resp.output_text, else resp.output[0].content[0].text.value, else None
ResponseText(resp) ==
    LET direct == GetAttr(resp, "output_text", PyNone)
        nested == AttrOf(AttrOf(FirstOf(AttrOf(FirstOf(AttrOf(Return(resp), "output")),
                                               "content")), "text"), "value")
    IN  IF Truthy(direct) THEN direct
        ELSE IF nested.raised THEN PyNone ELSE nested.value

\* content of the legacy path: the three ways to read the first choice, else None
CompletionText(comp) ==
    LET dictLike == KeyOf(KeyOf(FirstOf(KeyOf(Return(comp), "choices")), "message"), "content")
        mixed == KeyOf(AttrOf(FirstOf(AttrOf(Return(comp), "choices")), "message"), "content")
        attrs == AttrOf(AttrOf(FirstOf(AttrOf(Return(comp), "choices")), "message"), "content")
    IN  IF ~dictLike.raised THEN dictLike.value
        ELSE IF ~mixed.raised THEN mixed.value
        ELSE IF ~attrs.raised THEN attrs.value
        ELSE PyNone

ErrorNote == WarningSign \o <<" ", "E", "r", "r", "o", "r", " ", "w", "h", "i", "l", "e", " ", "c", "a", "l", "l", "i", "n", "g", " ", "A", "I", ":", " ">>

\* parse_investment_thesis(thesis_text, client), client given by what its calls do:
\* kind "responses" for a client, "legacy" for None and the openai module
parse_investment_thesis(cl) ==
    LET base == defaults
        \* data = parse_json_from_text(txt or ""); return normalize_merge(base, data)
        merged(txt) ==
            IF Or(txt, EmptyStr).t # "str" THEN Raise(AttributeError)
            ELSE normalize_merge(base, parse_json_from_text(Or(txt, EmptyStr).v))
        comp == IF cl.create.raised THEN cl.retry ELSE cl.create
        body ==
            IF cl.kind = "responses"
            THEN IF cl.create.raised THEN cl.create ELSE merged(ResponseText(cl.create.value))
            ELSE IF ~cl.importable THEN Raise(ImportError)
            ELSE IF comp.raised THEN comp
            ELSE merged(CompletionText(comp.value))
        fail == normalize_merge(base, EmptyDict)
    IN  IF ~body.raised THEN body
        ELSE IF fail.raised THEN fail
        ELSE Return(PyDict([key \in DOMAIN fail.value.v |->
                              IF key = "notes" THEN PyStr(ErrorNote \o body.message)
                              ELSE fail.value.v[key]]))

-----------------------------------------------------------------------------
(* parse_investment_thesis called as a function (SpecThesis) *)

\* texts the model may answer with
Prose(text) == <<"o", "k", ":", " ">> \o text \o <<" ", ".">>
Padded(text) == <<" ">> \o text \o <<LF>>
Fenced(lang, text) == Fence \o lang \o <<LF>> \o text \o <<LF>> \o Fence
FencedEscaped(lang, text) == Fence \o lang \o <<Backslash, "n">> \o text \o Fence
Json == <<"j", "s", "o", "n">>

WrappedObjects ==
    { EmptyDict, PyDict([scoring |-> EmptyDict]),
      PyDict([scoring |-> PyDict([team_quality |-> Num(3), traction |-> Num(12)])]) }

ThesisTexts ==
    { Dumps(v) : v \in JsonValues }
    \cup { Prose(Dumps(v)) : v \in WrappedObjects \cup {PyList(<<Num(1)>>)} }
    \cup { Padded(Dumps(v)) : v \in WrappedObjects }
    \cup { Fenced(lang, Dumps(v)) : lang \in {<<>>, Json}, v \in WrappedObjects }
    \cup { FencedEscaped(Json, Dumps(v)) : v \in WrappedObjects }
    \cup { <<>>, <<" ">>, <<"h", "i">>, <<"{", "h", "i", "}">>, <<"}", "{">>, <<"{">> }

TimedOut == <<"t", "i", "m", "e", "d", " ", "o", "u", "t">>

\* responses of client.responses.create
TextResponse(text) == PyObj([output_text |-> PyStr(text)])
NestedResponse(text) ==
    PyObj([output |-> PyList(<<PyObj([content |->
              PyList(<<PyObj([text |-> PyObj([value |-> PyStr(text)])])>>)])>>)])
ThesisResponses ==
    { TextResponse(t) : t \in ThesisTexts }
    \cup { NestedResponse(Dumps(v)) : v \in WrappedObjects }
    \cup { PyObj([output_text |-> PyNone, output |-> PyList(<<>>)]),
           PyObj([output_text |-> PyInt(<<"5">>)]) }

\* results of openai.ChatCompletion.create
Completions ==
    UNION { { PyDict([choices |-> PyList(<<PyDict([message |-> PyDict([content |-> PyStr(Dumps(v))])])>>)]),
              PyObj([choices |-> PyList(<<PyObj([message |-> PyDict([content |-> PyStr(Dumps(v))])])>>)]),
              PyObj([choices |-> PyList(<<PyObj([message |-> PyObj([content |-> PyStr(Dumps(v))])])>>)]) }
            : v \in WrappedObjects }
    \cup { PyDict([choices |-> PyList(<<>>)]) }

Clients ==
    { Client("responses", TRUE, Return(r), Raise(TimedOut)) : r \in ThesisResponses }
    \cup { Client("responses", TRUE, Raise(TimedOut), Raise(TimedOut)) }
    \cup { Client("legacy", TRUE, Return(c), Raise(TimedOut)) : c \in Completions }
    \cup { Client("legacy", TRUE, Raise(TimedOut), Return(c)) : c \in Completions }
    \cup { Client("legacy", TRUE, Raise(TimedOut), Raise(TimedOut)),
           Client("legacy", FALSE, Raise(ImportError), Raise(ImportError)) }

InitThesis ==
    /\ client \in Clients
    /\ thesis_result = NotParsed
    /\ TurnIdle
    /\ SideIdle
    /\ answer_text = <<>> /\ files_list = <<>> /\ web_list = <<>> /\ max_refs = DefaultMaxRefs
    /\ inject_result = NotCalled
    /\ final_response = PyNone /\ extract_result = NotExtracted

CallThesis ==
    /\ thesis_result = NotParsed
    /\ thesis_result' = [called |-> TRUE, outcome |-> parse_investment_thesis(client)]
    /\ UNCHANGED <<client, injectVars, extractVars, turnVars, sideVars>>

NextThesis == CallThesis

SpecThesis == InitThesis /\ [][NextThesis]_vars

-----------------------------------------------------------------------------
(* The file manager of the sidebar, src/chatbot.py: "Upload / Replace Files" and *)
(* "Delete a File". The calls of the OpenAI client succeed.                      *)

MaxUploads == 3    \* runs of the upload handler
MaxBatch == 1      \* files of one upload

\* the script outside the file manager and the functions called on their own, at rest
CallsIdle ==
    /\ answer_text = <<>> /\ files_list = <<>> /\ web_list = <<>> /\ max_refs = DefaultMaxRefs
    /\ inject_result = NotCalled
    /\ final_response = PyNone /\ extract_result = NotExtracted
    /\ TurnIdle
    /\ ThesisIdle

\* what the user drops on the uploader: uf.name and uf.getvalue()
UploadNames == {"a.pdf", "b.pdf"}
UploadContents == {<<"v", "1">>, <<"v", "2">>}
UploadedFiles == [name : UploadNames, raw : UploadContents]
UploadBatches == UNION { [1..n -> UploadedFiles] : n \in 1..MaxBatch }

\* sha256_bytes(data): the digest, distinct for the distinct contents of the model
sha256_bytes(data) == <<"sha256">> \o data

\* get_vs_name_to_ids(vector_store_id)[fname], [] for a name that is not attached
get_vs_name_to_ids(attached, fname) ==
    LET refs == SelectSeq(attached, LAMBDA ref : ref.filename = fname)
    IN  [i \in 1..Len(refs) |-> refs[i].id]

\* file_index[fname] = meta
SetMeta(index, fname, meta) ==
    [f \in DOMAIN index \cup {fname} |-> IF f = fname THEN meta ELSE index[f]]

\* one pass of the loop "for uf in uploaded_files" on the handler's state h
UploadOne(h, uf) ==
    LET fname == uf.name
        new_hash == sha256_bytes(uf.raw)
    IN  IF fname \in DOMAIN h.file_index /\ h.file_index[fname].sha256 = new_hash
        THEN [h EXCEPT !.skipped = @ + 1]
        ELSE LET existing_ids == get_vs_name_to_ids(h.vs_files, fname)
                 detached == SelectSeq(h.vs_files, LAMBDA ref : ref.filename # fname)
                 uploaded == Append(detached, [id |-> h.files_created + 1, filename |-> fname])
                 new_ids == get_vs_name_to_ids(uploaded, fname)
                 new_id == IF new_ids # <<>> THEN new_ids[Len(new_ids)] ELSE 0
             IN  [h EXCEPT !.vs_files = uploaded,
                           !.files_created = @ + 1,
                           !.file_index = SetMeta(@, fname, [file_id |-> new_id, sha256 |-> new_hash]),
                           !.replaced = IF existing_ids # <<>> THEN @ + 1 ELSE @,
                           !.added = IF existing_ids # <<>> THEN @ ELSE @ + 1]

RECURSIVE UploadAll(_, _)
\* the loop "for uf in uploaded_files"
UploadAll(h, uploaded_files) ==
    IF uploaded_files = <<>> THEN h
    ELSE UploadAll(UploadOne(h, Head(uploaded_files)), Tail(uploaded_files))

\* the vector store as upload_files_and_create_vector_store left it: the supported files of
\* the folder attached, none of them in the file index
InitFiles ==
    /\ \E folder \in {<<>>, <<"a.pdf">>} :
          /\ vs_files = [i \in 1..Len(folder) |-> [id |-> i, filename |-> folder[i]]]
          /\ files_created = Len(folder)
    /\ file_index = EmptyFileIndex
    /\ upload_key = 0
    /\ upload_report = NoReport
    /\ CallsIdle
    /\ LabIdle
    /\ SanitizeIdle

\* "if uploaded_files:" to st.rerun()
Upload ==
    /\ upload_key < MaxUploads
    /\ \E uploaded_files \in UploadBatches :
          LET h == UploadAll([vs_files |-> vs_files, files_created |-> files_created,
                              file_index |-> file_index,
                              added |-> 0, replaced |-> 0, skipped |-> 0], uploaded_files)
          IN  /\ vs_files' = h.vs_files
              /\ files_created' = h.files_created
              /\ file_index' = h.file_index
              /\ upload_report' = [ran |-> TRUE,
                                   names |-> [i \in 1..Len(uploaded_files) |-> uploaded_files[i].name],
                                   added |-> h.added, replaced |-> h.replaced,
                                   skipped |-> h.skipped]
    /\ upload_key' = upload_key + 1
    /\ UNCHANGED <<injectVars, extractVars, turnVars, thesisVars, labVars, sanitizeVars>>

\* the button "Delete selected file" on one of the listed files
DeleteSelected ==
    /\ vs_files # <<>>
    /\ \E k \in 1..Len(vs_files) :
          vs_files' = SubSeq(vs_files, 1, k - 1) \o SubSeq(vs_files, k + 1, Len(vs_files))
    /\ upload_report' = NoReport
    /\ UNCHANGED <<files_created, file_index, upload_key>>
    /\ UNCHANGED <<injectVars, extractVars, turnVars, thesisVars, labVars, sanitizeVars>>

NextFiles == Upload \/ DeleteSelected

SpecFiles == InitFiles /\ [][NextFiles]_vars

-----------------------------------------------------------------------------
(* AgentLab, src/app/views/agentlab.py, on the session state of src/app/state.py. *)
(* The sessions of one server process share the module app.state; a run of the    *)
(* script handles one button click.                                               *)

MaxClicks == 4     \* button clicks handled by the sessions together

\* the dict object DEFAULT_INBOUND_WORKSTREAMS[name], held by reference
SharedCfg == [owner |-> "module"]
\* a dict object {"status": status} made by the form of the session
OwnCfg(status) == [owner |-> "session", status |-> status]

\* dict(DEFAULT_INBOUND_WORKSTREAMS): a new outer dict whose values are the same objects
ShallowCopy == [name \in DOMAIN DEFAULT_INBOUND_WORKSTREAMS |-> SharedCfg]

\* st.session_state.inbound_workstreams[name].get("status", "Active") in session s
StatusOf(s, name) ==
    LET cfg == session_state[s].inbound_workstreams[name]
    IN  IF cfg.owner = "module" THEN DEFAULT_INBOUND_WORKSTREAMS[name].status ELSE cfg.status

\* what the form's text input and select box hold
FormNames == {"", " ", "Custom", "Inbound Email Screening"}
FormStatuses == {"Active", "Paused"}

\* name.strip()
StripName(name) == IF name = " " THEN "" ELSE name

Click(s, button, name) ==
    [session |-> s, button |-> button, name |-> name,
     current_workstream |-> session_state[s].current_workstream]

InitLab ==
    /\ LabIdle
    /\ CallsIdle
    /\ FilesIdle
    /\ SanitizeIdle

\* init_session_state() in the first run of session s
init_session_state(s) ==
    /\ ~session_state[s].initialised
    /\ session_state' = [session_state EXCEPT ![s] =
            [initialised |-> TRUE,
             inbound_workstreams |-> ShallowCopy,
             current_workstream |-> PyNone,
             creating_workstream |-> FALSE]]
    /\ UNCHANGED <<DEFAULT_INBOUND_WORKSTREAMS, clicks, last_click>>
    /\ UNCHANGED <<injectVars, extractVars, turnVars, thesisVars, filesVars, sanitizeVars>>

\* a run of session s in which the button of the given action is pressed
Pressed(s, button, name) ==
    /\ session_state[s].initialised
    /\ clicks < MaxClicks
    /\ clicks' = clicks + 1
    /\ last_click' = Click(s, button, name)
    /\ UNCHANGED <<injectVars, extractVars, turnVars, thesisVars, filesVars, sanitizeVars>>

\* the button "Create New Workstream"
CreateNewWorkstream(s) ==
    /\ Pressed(s, "Create New Workstream", "")
    /\ session_state' = [session_state EXCEPT ![s].creating_workstream = TRUE,
                                               ![s].current_workstream = PyNone]
    /\ UNCHANGED DEFAULT_INBOUND_WORKSTREAMS

\* the button "Config" of a listed workstream
Config(s, name) ==
    /\ Pressed(s, "Config", name)
    /\ name \in DOMAIN session_state[s].inbound_workstreams
    /\ session_state' = [session_state EXCEPT ![s].current_workstream = PyStr(name),
                                               ![s].creating_workstream = FALSE]
    /\ UNCHANGED DEFAULT_INBOUND_WORKSTREAMS

\* the button "Pause" or "Activate" of a listed workstream: an item assignment on the
\* dict object the session's entry refers to
Toggle(s, name) ==
    /\ Pressed(s, "Toggle", name)
    /\ name \in DOMAIN session_state[s].inbound_workstreams
    /\ LET status == StatusOf(s, name)
           toggled == IF status = "Active" THEN "Paused" ELSE "Active"
       IN  IF session_state[s].inbound_workstreams[name].owner = "module"
           THEN /\ DEFAULT_INBOUND_WORKSTREAMS' =
                      [DEFAULT_INBOUND_WORKSTREAMS EXCEPT ![name].status = toggled]
                /\ UNCHANGED session_state
           ELSE /\ session_state' =
                      [session_state EXCEPT ![s].inbound_workstreams[name].status = toggled]
                /\ UNCHANGED DEFAULT_INBOUND_WORKSTREAMS

\* inbound_workstreams.pop(to_delete, None)
Pop(workstreams, to_delete) ==
    [name \in DOMAIN workstreams \ {to_delete} |-> workstreams[name]]

\* the button "Delete" where the configured workstream is left as it is
Delete_KeepsCurrent(s, name) ==
    /\ Pressed(s, "Delete", name)
    /\ name \in DOMAIN session_state[s].inbound_workstreams
    /\ session_state' = [session_state EXCEPT ![s].inbound_workstreams = Pop(@, name)]
    /\ UNCHANGED DEFAULT_INBOUND_WORKSTREAMS

\* the button "Delete" of a listed workstream
Delete(s, name) ==
    /\ Pressed(s, "Delete", name)
    /\ name \in DOMAIN session_state[s].inbound_workstreams
    /\ session_state' = [session_state EXCEPT
            ![s].inbound_workstreams = Pop(@, name),
            ![s].current_workstream = IF @ = PyStr(name) THEN PyNone ELSE @]
    /\ UNCHANGED DEFAULT_INBOUND_WORKSTREAMS

\* the button "Save Workstream" of the form, which is rendered while creating_workstream
SaveWorkstream(s, name, status) ==
    /\ Pressed(s, "Save Workstream", name)
    /\ session_state[s].creating_workstream
    /\ IF StripName(name) = "" \/ name \in DOMAIN session_state[s].inbound_workstreams
       THEN UNCHANGED session_state
       ELSE session_state' = [session_state EXCEPT
               ![s].inbound_workstreams =
                   [n \in DOMAIN @ \cup {name} |-> IF n = name THEN OwnCfg(status) ELSE @[n]],
               ![s].current_workstream = PyStr(name),
               ![s].creating_workstream = FALSE]
    /\ UNCHANGED DEFAULT_INBOUND_WORKSTREAMS

NextLab ==
    \E s \in Sessions :
        \/ init_session_state(s)
        \/ CreateNewWorkstream(s)
        \/ \E name \in DOMAIN DefaultWorkstreams \cup FormNames :
              Config(s, name) \/ Toggle(s, name) \/ Delete(s, name)
        \/ \E name \in FormNames, status \in FormStatuses : SaveWorkstream(s, name, status)

SpecLab == InitLab /\ [][NextLab]_vars

-----------------------------------------------------------------------------
(* sanitize_text called as a function on the raw text of the model, once as the *)
(* streaming path does and twice as the fallback path does, src/chatbot.py      *)

MaxPieces == 3     \* pieces of a raw model text

\* the pieces raw texts are made of
RawPieces ==
    { <<"[", "t", "u", "r", "n", "1">>, <<"f", "i", "l", "e", "2", "]">>,
      <<ZeroWidth>>, <<"U+2060">>, <<CiteOpen>>, <<CiteClose>>, <<" ">>, <<"a">> }

RawTexts == { Concat(pieces) : pieces \in UNION { [1..n -> RawPieces] : n \in 0..MaxPieces } }

InitSanitize ==
    /\ raw_text \in RawTexts
    /\ sanitize_result = NotSanitized
    /\ CallsIdle
    /\ FilesIdle
    /\ LabIdle

\* the final answer of a turn whose model text is raw_text: final_answer =
\* sanitize_text(streamed_text), where streamed_text is the concatenated deltas on the
\* streaming path and sanitize_text(final_text) on the fallback path
CallSanitize ==
    /\ ~sanitize_result.called
    /\ sanitize_result' = [called |-> TRUE,
                           streaming |-> sanitize_text(raw_text),
                           fallback |-> sanitize_text(sanitize_text(raw_text))]
    /\ UNCHANGED <<raw_text, injectVars, extractVars, turnVars, thesisVars, filesVars, labVars>>

NextSanitize == CallSanitize

SpecSanitize == InitSanitize /\ [][NextSanitize]_vars

-----------------------------------------------------------------------------
(* Reading an injector result back *)

RECURSIVE SplitOnLF(_)
\* s.split("\n")
SplitOnLF(s) ==
    IF \E i \in 1..Len(s) : s[i] = LF
    THEN LET i == CHOOSE i \in 1..Len(s) : s[i] = LF /\ \A j \in 1..(i - 1) : s[j] # LF
         IN  <<SubSeq(s, 1, i - 1)>> \o SplitOnLF(SubSeq(s, i + 1, Len(s)))
    ELSE <<s>>

\* the marker text "[n]"
MarkerText(n) == <<"[">> \o IntToStr(n) \o <<"]">>

\* how many times the marker [n] appears in a text
Occurrences(n, s) ==
    Cardinality({ i \in 1..Len(s) :
                    /\ i + Len(MarkerText(n)) - 1 <= Len(s)
                    /\ SubSeq(s, i, i + Len(MarkerText(n)) - 1) = MarkerText(n) })

\* a heading as the specification words it: trimmed, it starts with '#' or ends with a colon
TrimmedLine(line) ==
    LET keep == { i \in 1..Len(line) : line[i] \notin Whitespace }
    IN  IF keep = {} THEN <<>>
        ELSE SubSeq(line, CHOOSE i \in keep : \A j \in keep : i <= j,
                          CHOOSE i \in keep : \A j \in keep : i >= j)

HeadingLine(line) ==
    LET t == TrimmedLine(line)
    IN  t # <<>> /\ (t[1] = "#" \/ t[Len(t)] = ":" \/ t[Len(t)] = FWColon)

BlankLine(line) == \A i \in 1..Len(line) : line[i] \in Whitespace

EligibleLine(line) == ~BlankLine(line) /\ ~HeadingLine(line)

\* how many of the lines before the i-th are eligible
EligibleBefore(lines, i) == Cardinality({ j \in 1..(i - 1) : EligibleLine(lines[j]) })
EligibleCount(lines) == EligibleBefore(lines, Len(lines) + 1)
Min(a, b) == IF a < b THEN a ELSE b
MaxMarker == 9

\* C1: the marker numbers that appear inline in the output text of
\* inject_inline_citations are exactly 1..k for some k <= min(eligible lines,
\* combined references), each appearing once.
C1_InlineMarkersAreOneToK ==
    inject_result.called =>
        \E k \in 0..Min(EligibleCount(SplitLines(answer_text)),
                        Len(Combined(files_list, web_list, max_refs))) :
            \A n \in 1..MaxMarker :
                Occurrences(n, inject_result.text) = (IF n <= k THEN 1 ELSE 0)

\* C3: a heading line (trimmed, it starts with '#' or ends with ':' or the full-width
\* colon) comes out of inject_inline_citations unchanged wherever it stands and however
\* many references are left, and it uses up no marker number: the marker on an
\* eligible line counts only the eligible lines before it.
C3_HeadingsGetNoMarker ==
    (inject_result.called /\ answer_text # <<>>) =>
        LET inl == SplitLines(answer_text)
            outl == SplitOnLF(inject_result.text)
        IN  /\ Len(outl) = Len(inl)
            /\ \A i \in 1..Len(inl) :
                  /\ HeadingLine(inl[i]) => outl[i] = inl[i]
                  /\ outl[i] # inl[i] =>
                        outl[i] = inl[i] \o <<" ">> \o MarkerText(EligibleBefore(inl, i) + 1)

\* C3 witness: a heading of each kind stands before a line that received marker 1
\* while a reference is still unused after it.
C3_Witness ==
    /\ inject_result.called
    /\ LET inl == SplitLines(answer_text)
           outl == SplitOnLF(inject_result.text)
       IN  /\ Len(inl) = 3
           /\ HeadingLine(inl[1]) /\ inl[1][Len(inl[1])] = FWColon
           /\ HeadingLine(inl[2]) /\ inl[2][1] = "#"
           /\ outl[3] = inl[3] \o <<" ">> \o MarkerText(1)
    /\ Len(Combined(files_list, web_list, max_refs)) > 1

\* C8: the pair with marker number i refers to files_list[i-1] with kind "file" when
\* i <= len(files_list) and to web_list[i-1-len(files_list)] with kind "web" otherwise,
\* no marker number exceeds max_refs, and no web item has a lower number than a file item.
C8_FilesFirstThenWeb ==
    inject_result.called =>
        LET m == inject_result.refs_mapping IN
        /\ \A p \in 1..Len(m) :
              /\ m[p][1] = p
              /\ p <= max_refs
              /\ p <= Len(files_list) + Len(web_list)
              /\ IF p <= Len(files_list)
                 THEN m[p][2] = files_list[p] /\ m[p][3] = "file"
                 ELSE m[p][2] = web_list[p - Len(files_list)] /\ m[p][3] = "web"
        /\ \A p, q \in 1..Len(m) : (m[p][3] = "web" /\ m[q][3] = "file") => m[p][1] > m[q][1]

\* C8 witness: file and web items are both referenced and max_refs cut the sequence.
C8_Witness ==
    /\ inject_result.called
    /\ \E p, q \in 1..Len(inject_result.refs_mapping) :
          /\ inject_result.refs_mapping[p][3] = "file"
          /\ inject_result.refs_mapping[q][3] = "web"
    /\ Len(files_list) + Len(web_list) > max_refs
    /\ Len(inject_result.refs_mapping) = max_refs

-----------------------------------------------------------------------------
(* Reading an extractor result back *)

\* every evidence item a response holds, in block order: all items of every tool
\* result and all annotations of every block that can be read
RECURSIVE AllItems(_)
AllItems(blocks) ==
    IF blocks = <<>> THEN [web |-> <<>>, files |-> <<>>]
    ELSE LET data == GetAttr(Head(blocks), "output", PyNone)
             b == ExtractBlockCap(Head(blocks), Len(Elements(ToolItems(data))))
             rest == AllItems(Tail(blocks))
         IN  [web |-> b.web \o rest.web, files |-> b.files \o rest.files]

ResponseItems(response) ==
    LET output == GetAttr(response, "output", PyNone)
    IN  AllItems(Elements(output))

UrlOf(item) == Get(item, "url")

\* the index of the first item of seq with the key k
FirstWith(seq, Key(_), k) ==
    CHOOSE i \in 1..Len(seq) : Key(seq[i]) = k /\ \A j \in 1..(i - 1) : Key(seq[j]) # k

\* kept holds no two items with one key, and each is the first item of all with its
\* key, in the order of those first items
FirstOccurrences(kept, all, Key(_)) ==
    /\ \A i, j \in 1..Len(kept) : i # j => Key(kept[i]) # Key(kept[j])
    /\ \A i \in 1..Len(kept) :
          /\ \E j \in 1..Len(all) : Key(all[j]) = Key(kept[i])
          /\ kept[i] = all[FirstWith(all, Key, Key(kept[i]))]
    /\ \A i, j \in 1..Len(kept) :
          i < j => FirstWith(all, Key, Key(kept[i])) < FirstWith(all, Key, Key(kept[j]))

C6_ExtractNeverRaises ==
    extract_result.called => ~extract_result.raised

-----------------------------------------------------------------------------
(* Reading the final string of a turn back *)

\* the turn went through steps 1 to 5 and its references were rendered
TurnRendered == pc = "idle" /\ outcome = "done" /\ refs_mapping # <<>>

\* a references entry as section 4.3 of the specification writes it
EntryLabel(n) == MarkerText(n) \o <<" ">>
FileEntry(n, item) ==
    EntryLabel(n) \o <<"*", "*">> \o Strip(Get(item, "filename").v) \o <<"*", "*", " ", EmDash, " ">>
    \o Strip(Get(item, "quote").v)
WebEntry(n, item) ==
    EntryLabel(n) \o <<"[">> \o Get(item, "title").v \o <<"]", "(">> \o Get(item, "url").v \o <<")">>
    \o (IF Get(item, "snippet").v = <<>> THEN <<>> ELSE <<" ", EmDash, " ">> \o Get(item, "snippet").v)
Entry(n, item, kind) == IF kind = "file" THEN FileEntry(n, item) ELSE WebEntry(n, item)

\* the entries of the pairs of refs_mapping, in the order of the pairs
Entries == [i \in 1..Len(refs_mapping) |-> Entry(i, refs_mapping[i][2], refs_mapping[i][3])]

\* the evidence the injector was handed: the file quotes, then the web sources
Evidence == [i \in 1..(Len(quotes_files) + Len(sources_web)) |->
                IF i <= Len(quotes_files)
                THEN <<quotes_files[i], "file">>
                ELSE <<sources_web[i - Len(quotes_files)], "web">>]

\* pair i carries number i and the i-th evidence item, and " [i]" ends a line of the text
PairsMatchMarkers ==
    \A i \in 1..Len(refs_mapping) :
        /\ refs_mapping[i][1] = i
        /\ i <= Len(Evidence)
        /\ <<refs_mapping[i][2], refs_mapping[i][3]>> = Evidence[i]
        /\ \E l \in 1..Len(SplitOnLF(final_answer_with_cites)) :
              EndsWith(SplitOnLF(final_answer_with_cites)[l], <<" ">> \o MarkerText(i))

\* C2: in the final string of a turn the references block has exactly one line for
\* each pair returned by inject_inline_citations, in the order of the pairs; the line
\* of pair n starts with "[n]" and renders the evidence item whose marker " [n]" was
\* appended to a line of the answer.
C2_OneLinePerPair ==
    TurnRendered =>
        LET lines == SplitOnLF(final_answer_with_cites)
            k == Len(refs_mapping)
        IN  /\ PairsMatchMarkers
            /\ Len(lines) > k
            /\ \A i \in 1..k :
                  /\ StartsWith(lines[Len(lines) - k + i], MarkerText(i))
                  /\ lines[Len(lines) - k + i] = Entries[i]

\* C2 (amended): the final string of a turn ends with the references block, the
\* entries of the pairs returned by inject_inline_citations joined by line breaks, one
\* entry for each pair in the order of the pairs; the entry of pair n starts with
\* "[n]" and renders the evidence item whose marker " [n]" was appended to a line of
\* the answer. An entry takes as many lines as its item's text has.
C2_OneEntryPerPair ==
    TurnRendered =>
        /\ PairsMatchMarkers
        /\ \A i \in 1..Len(refs_mapping) : StartsWith(Entries[i], MarkerText(i))
        /\ EndsWith(final_answer_with_cites, <<LF>> \o Join(<<LF>>, Entries))

\* a turn rendered the entries of two file quotes and a web source below its answer
C2_Witness ==
    /\ TurnRendered
    /\ Len(refs_mapping) >= 3
    /\ refs_mapping[1][3] = "file" /\ refs_mapping[3][3] = "web"
    /\ final_answer_with_cites # final_answer

\* C4: when the answer text is empty, or both evidence lists are empty, the result of
\* the turn is the answer text unchanged, character for character, no references
\* section is appended and the marker list is empty.
C4_EmptyInputsLeaveTextUnchanged ==
    (pc = "idle" /\ outcome = "done"
       /\ (final_answer = <<>> \/ (quotes_files = <<>> /\ sources_web = <<>>)))
    => (final_answer_with_cites = final_answer /\ refs_mapping = <<>>)

\* the text the placement is decided on: the answer with its markers injected
InjectedText == inject_inline_citations(final_answer, quotes_files, sources_web, DefaultMaxRefs).text

WithoutHeading(text) == text \o <<LF, LF>> \o Join(<<LF>>, Entries)
WithHeading(text) ==
    text \o <<LF, LF, "*", "*", "R", "e", "f", "e", "r", "e", "n", "c", "e", "s", ":", "*", "*", LF>>
    \o Join(<<LF>>, Entries)

C9_UpstreamFailureIsDisplayed ==
    (pc = "idle" /\ upstream = "failed")
    => /\ outcome = "done"
       /\ chat_history # <<>>
       /\ chat_history[Len(chat_history)].role = "assistant"

-----------------------------------------------------------------------------
(* Reading the result of parse_investment_thesis back *)

\* the model call of the client failed: the one call of a client, both calls of the
\* legacy module
ModelCallRaised ==
    /\ client.create.raised
    /\ client.kind = "legacy" => client.importable /\ client.retry.raised

\* C10: parse_investment_thesis never raises: whatever the model call does (raises,
\* answers nothing, no JSON, JSON that is no object, an object without some keys of the
\* schema) it returns a dict with all the documented keys, and when the model call
\* raised the notes of the dict start with the warning sign and "Error while calling AI:".
C10_ThesisNeverRaises ==
    thesis_result.called =>
        /\ ~thesis_result.outcome.raised
        /\ thesis_result.outcome.value.t = "dict"
        /\ ResultKeys \subseteq DOMAIN thesis_result.outcome.value.v
        /\ ModelCallRaised =>
              /\ thesis_result.outcome.value.v["notes"].t = "str"
              /\ StartsWith(thesis_result.outcome.value.v["notes"].v, ErrorNote)

-----------------------------------------------------------------------------
(* The injector: which lines are marked, and what is left alone *)

\* the length of the capped combined sequence, from the arguments
RefCount == Min(max_refs, Len(files_list) + Len(web_list))

\* C12: inject_inline_citations marks exactly the first min(E, R) eligible lines in
\* line order, E being the number of non-blank non-heading lines and R the length of
\* the capped combined sequence: the i-th eligible line comes out as itself followed by
\* " [i]", every other line comes out as it went in, and each of the first min(E, R)
\* entries of the combined sequence is paired with exactly one marker, its own index.
C12_FirstEligibleLinesGetMarkers ==
    (inject_result.called /\ answer_text # <<>>) =>
        LET inl == SplitLines(answer_text)
            outl == SplitOnLF(inject_result.text)
            K == Min(EligibleCount(inl), RefCount)
            all == [i \in 1..Len(files_list) |-> <<files_list[i], "file">>]
                   \o [i \in 1..Len(web_list) |-> <<web_list[i], "web">>]
            m == inject_result.refs_mapping
        IN  /\ Len(outl) = Len(inl)
            /\ \A i \in 1..Len(inl) :
                  LET k == EligibleBefore(inl, i) + 1 IN
                  outl[i] = IF EligibleLine(inl[i]) /\ k <= K
                            THEN inl[i] \o <<" ">> \o MarkerText(k)
                            ELSE inl[i]
            /\ Len(m) = K
            /\ \A k \in 1..K : m[k] = <<k, all[k][1], all[k][2]>>

\* C12 witness: three eligible lines and two references: the first two lines are
\* marked 1 and 2, the third is reached with the references used up.
C12_Witness ==
    /\ inject_result.called
    /\ LET inl == SplitLines(answer_text)
           outl == SplitOnLF(inject_result.text)
       IN  /\ Len(inl) = 3
           /\ \A i \in 1..3 : EligibleLine(inl[i])
           /\ RefCount = 2
           /\ outl[2] = inl[2] \o <<" ">> \o MarkerText(2)
           /\ outl[3] = inl[3]

\* C13: inject_inline_citations preserves the line structure of a non-empty answer:
\* the output has as many lines as the input, in the same order; a blank line, a heading
\* line and a line reached after the references are used up comes out identical to its
\* input line; every other line comes out as its input line followed only by " [n]";
\* and the output lines with those markers taken off, joined again, are the original
\* text.
C13_LineStructurePreserved ==
    (inject_result.called /\ answer_text # <<>>) =>
        LET inl == SplitLines(answer_text)
            outl == SplitOnLF(inject_result.text)
            Marked(i) == \E n \in 1..MaxMarker : outl[i] = inl[i] \o <<" ">> \o MarkerText(n)
            Unmarked(i) == IF Marked(i) THEN inl[i] ELSE outl[i]
        IN  /\ Len(outl) = Len(inl)
            /\ \A i \in 1..Len(inl) :
                  IF \/ BlankLine(inl[i])
                     \/ HeadingLine(inl[i])
                     \/ EligibleBefore(inl, i) >= RefCount
                  THEN outl[i] = inl[i]
                  ELSE Marked(i)
            /\ Join(<<LF>>, [i \in 1..Len(inl) |-> Unmarked(i)]) = answer_text

-----------------------------------------------------------------------------
(* The extractor: what is returned of what the response holds *)

\* kept is the sequence of the first items of all with each key, in the order of
\* those first items, cut after cap items
FirstDistinctUpTo(kept, all, Key(_), cap) ==
    LET keys == { Key(all[i]) : i \in 1..Len(all) }
        first(k) == FirstWith(all, Key, k)
    IN  /\ Len(kept) = Min(cap, Cardinality(keys))
        /\ \A i \in 1..Len(kept) :
              /\ Key(kept[i]) \in keys
              /\ kept[i] = all[first(Key(kept[i]))]
              /\ Cardinality({ k \in keys : first(k) < first(Key(kept[i])) }) = i - 1

HasUrl(item) == Truthy(UrlOf(item))

\* C14: extract_sources_and_quotes returns the web items of the response that bear a
\* URL, deduplicated by URL in first-seen order and then cut to 10, and the file items
\* likewise by (filename, quote): a response holding at least 10 distinct URLs (or
\* quote pairs) yields exactly 10 items, fewer than 10 only when fewer are distinct.
C14_DedupBeforeTruncation ==
    (extract_result.called /\ ~extract_result.raised) =>
        /\ FirstDistinctUpTo(extract_result.web,
                             SelectSeq(ResponseItems(final_response).web, HasUrl),
                             UrlOf, ItemCap)
        /\ FirstDistinctUpTo(extract_result.files, ResponseItems(final_response).files,
                             QuoteKey, ItemCap)

\* what the loop body appends for each block taken by itself, in block order: the
\* items of the blocks before and after a block that cannot be read
RECURSIVE EveryBlock(_)
EveryBlock(blocks) ==
    IF blocks = <<>> THEN [web |-> <<>>, files |-> <<>>]
    ELSE LET b == ExtractBlock(Head(blocks))
             rest == EveryBlock(Tail(blocks))
         IN  [web |-> b.web \o rest.web, files |-> b.files \o rest.files]

WellFormedItems(response) ==
    LET output == GetAttr(response, "output", PyNone)
    IN  EveryBlock(Elements(output))

\* some block of the response cannot be read: its tool result is neither a list nor a
\* dict of a list, or its annotations cannot be iterated
SomeBlockMalformed(response) ==
    LET output == GetAttr(response, "output", PyNone)
    IN  \E i \in 1..Len(Elements(output)) : ExtractBlock(Elements(output)[i]).raised

\* C15: a malformed or absent piece of tool-result or annotation data in one block
\* costs only the affected item: every well-formed item of the same block and of all
\* later blocks is still returned (its URL, or its filename and quote, is among the
\* returned items unless the cap of 10 filled the list).
C15_LaterBlocksStillExtracted ==
    (extract_result.called /\ ~extract_result.raised) =>
        LET all == WellFormedItems(final_response) IN
        /\ \A i \in 1..Len(all.web) :
              HasUrl(all.web[i]) =>
                 \/ Len(extract_result.web) = ItemCap
                 \/ \E j \in 1..Len(extract_result.web) :
                       UrlOf(extract_result.web[j]) = UrlOf(all.web[i])
        /\ \A i \in 1..Len(all.files) :
                 \/ Len(extract_result.files) = ItemCap
                 \/ \E j \in 1..Len(extract_result.files) :
                       QuoteKey(extract_result.files[j]) = QuoteKey(all.files[i])

\* the raw entries of a response: the elements of every tool result and of every
\* annotations list that can be read
RawEntries(response) ==
    LET blocks == Elements(GetAttr(response, "output", PyNone))
        Of(x) == IF Iterable(x) THEN { Elements(x)[i] : i \in 1..Len(Elements(x)) } ELSE {}
    IN  UNION { Of(ToolItems(GetAttr(blocks[i], "output", PyNone)))
                \cup Of(GetAttr(blocks[i], "annotations", PyNone)) : i \in 1..Len(blocks) }

\* the returned web item w was made of the raw entry r
WebMadeOf(w, r) ==
    /\ IsDict(r)
    /\ UrlOf(w) \in {Get(r, "url"), Get(r, "link")}
    /\ Get(w, "title") = (IF Truthy(Get(r, "title")) THEN Get(r, "title") ELSE SourceTitle)
    /\ Get(w, "snippet") = (IF Truthy(Get(r, "snippet")) THEN Get(r, "snippet") ELSE EmptyStr)

\* the returned file item q was made of the raw entry r
FileMadeOf(q, r) ==
    /\ IsDict(r)
    /\ Get(q, "quote") \in {Get(r, "quote"), Get(r, "text")}
    /\ LET meta == Get(r, "file")
           names == IF IsDict(meta)
                    THEN { n \in {Get(meta, "filename"), Get(meta, "name")} : Truthy(n) }
                    ELSE {}
       IN  IF names = {} THEN Get(q, "filename") = FileName
           ELSE Get(q, "filename") \in names

\* C16: every item extract_sources_and_quotes returns is complete: a web item has a
\* non-empty url, a non-empty title ("Source" when its entry had none) and a snippet
\* (empty when its entry had none); a file item has a non-empty quote and a non-empty
\* filename ("file" when its entry had none); no item without a URL or without a
\* quote is returned, from a tool result or from an annotation.
C16_ReturnedItemsComplete ==
    (extract_result.called /\ ~extract_result.raised) =>
        /\ \A i \in 1..Len(extract_result.web) :
              LET w == extract_result.web[i] IN
              /\ IsDict(w) /\ DOMAIN w.v = {"title", "url", "snippet"}
              /\ Truthy(w.v["url"]) /\ Truthy(w.v["title"])
              /\ Truthy(w.v["snippet"]) \/ w.v["snippet"] = EmptyStr
              /\ \E r \in RawEntries(final_response) : WebMadeOf(w, r)
        /\ \A i \in 1..Len(extract_result.files) :
              LET q == extract_result.files[i] IN
              /\ IsDict(q) /\ DOMAIN q.v = {"filename", "quote"}
              /\ Truthy(q.v["quote"]) /\ Truthy(q.v["filename"])
              /\ \E r \in RawEntries(final_response) : FileMadeOf(q, r)

\* C16 witness: a web entry without title and snippet was returned under "Source"
\* with an empty snippet, a file entry without a file under "file", and the response
\* also held an entry with a title and no URL, which was not returned.
C16_Witness ==
    /\ extract_result.called /\ ~extract_result.raised
    /\ \E i \in 1..Len(extract_result.web) :
          /\ Get(extract_result.web[i], "title") = SourceTitle
          /\ Get(extract_result.web[i], "snippet") = EmptyStr
    /\ \E i \in 1..Len(extract_result.files) :
          Get(extract_result.files[i], "filename") = FileName
    /\ \E r \in RawEntries(final_response) :
          IsDict(r) /\ Truthy(Get(r, "title")) /\ ~Truthy(Get(r, "url")) /\ ~Truthy(Get(r, "link"))

-----------------------------------------------------------------------------
(* The chat turn: when a references section is appended, and how it is written *)

\* the injector had a line to mark and a reference to mark it with
MarkerAssigned ==
    /\ Evidence # <<>>
    /\ final_answer # <<>>
    /\ EligibleCount(SplitLines(final_answer)) > 0

\* C17: a references section is appended to the answer of a turn if and only if
\* inject_inline_citations assigned at least one marker: with evidence and no eligible
\* line (all lines blank or headings) the turn's string is the answer and nothing
\* after it; with at least one marker the string goes on, after the marked answer and
\* an empty line, with the reference entries.
C17_SectionIffMarkerAssigned ==
    (pc = "idle" /\ outcome = "done" /\ upstream # "failed") =>
        /\ MarkerAssigned <=> refs_mapping # <<>>
        /\ IF MarkerAssigned
           THEN /\ StartsWith(final_answer_with_cites, InjectedText \o <<LF, LF>>)
                /\ EndsWith(final_answer_with_cites, <<LF>> \o Join(<<LF>>, Entries))
           ELSE final_answer_with_cites = InjectedText

\* C17 witness: a turn ended with evidence extracted and an answer of a heading
\* line only: no marker, and the string of the turn is the answer.
C17_Witness ==
    /\ pc = "idle" /\ outcome = "done" /\ upstream # "failed"
    /\ Evidence # <<>>
    /\ final_answer # <<>>
    /\ EligibleCount(SplitLines(final_answer)) = 0
    /\ refs_mapping = <<>>
    /\ final_answer_with_cites = final_answer

\* the entry of a file pair with the filename and the quote as the pair holds them
VerbatimFileLine(n, item) ==
    EntryLabel(n) \o <<"*", "*">> \o Get(item, "filename").v \o <<"*", "*", " ", EmDash, " ">>
    \o Get(item, "quote").v

\* the entry of a file pair with the filename and the quote trimmed
TrimmedFileLine(n, item) ==
    EntryLabel(n) \o <<"*", "*">> \o TrimmedLine(Get(item, "filename").v)
    \o <<"*", "*", " ", EmDash, " ">> \o TrimmedLine(Get(item, "quote").v)

\* the entry of a web pair: a link when the url is not empty, the bare title
\* otherwise, then the snippet after a dash when it is not empty
WebLine(n, item) ==
    LET title == Get(item, "title").v
        url == Get(item, "url").v
        snippet == Get(item, "snippet").v
    IN  EntryLabel(n)
        \o (IF url # <<>> THEN <<"[">> \o title \o <<"]", "(">> \o url \o <<")">> ELSE title)
        \o (IF snippet # <<>> THEN <<" ", EmDash, " ">> \o snippet ELSE <<>>)

\* the references of the turn are the lines FileLine and WebLine give for the pairs
RenderedAs(FileLine(_, _)) ==
    EndsWith(final_answer_with_cites,
             <<LF>> \o Join(<<LF>>, [i \in 1..Len(refs_mapping) |->
                                       IF refs_mapping[i][3] = "file"
                                       THEN FileLine(refs_mapping[i][1], refs_mapping[i][2])
                                       ELSE WebLine(refs_mapping[i][1], refs_mapping[i][2])]))

\* C18: the renderer formats each pair by kind: a file pair as
\* "[n] **<filename>** -- <quote>" (the dash being an em dash), a web pair with a
\* non-empty URL as "[n] [<title>](<url>)", followed by " -- <snippet>" exactly when
\* the snippet is non-empty, a web pair with an empty URL as "[n] <title>" with the
\* same optional snippet suffix and never as a link.
C18_EntriesByKind ==
    TurnRendered => RenderedAs(VerbatimFileLine)

\* C18 (amended): the same, the filename and the quote of a file pair being written
\* with their leading and trailing whitespace removed.
C18_EntriesByKindTrimmed ==
    TurnRendered => RenderedAs(TrimmedFileLine)

\* C18 witness: the references of a file pair whose filename and quote carry
\* whitespace at their ends, followed by a web pair without URL and with a snippet.
C18_Witness ==
    /\ TurnRendered
    /\ Len(refs_mapping) = 2
    /\ refs_mapping[1][3] = "file"
    /\ Get(refs_mapping[1][2], "filename").v = <<" ", "f", "1", " ">>
    /\ Get(refs_mapping[1][2], "quote").v = <<" ", "q", "1", LF>>
    /\ refs_mapping[2][3] = "web"
    /\ Get(refs_mapping[2][2], "url") = EmptyStr
    /\ Get(refs_mapping[2][2], "snippet") = Snippet

-----------------------------------------------------------------------------
(* The chat turn: the model calls it makes *)

\* how many calls of one kind the turn has made
CallCount(call) == Cardinality({ i \in 1..Len(model_calls) : model_calls[i].call = call })

\* the streaming call of the turn raised: on opening, on an event, in until_done or
\* in get_final_response
StreamCallRaised ==
    \E i \in 1..Len(model_calls) : model_calls[i].call = "stream" /\ model_calls[i].raised

\* the non-streaming call of the turn returned a response
FallbackSucceeded ==
    \E i \in 1..Len(model_calls) : model_calls[i].call = "create" /\ ~model_calls[i].raised

\* the text of the output_text items of the response the turn keeps
KeptResponseText ==
    OutputText(Elements(Or(GetAttr(final_response_obj, "output", PyNone), PyList(<<>>))))

\* C19: an exception raised while the streaming call is consumed leads to exactly one
\* non-streaming call: after it the script stands at that call, not yet made, or has
\* made it once and ended the turn. When the call succeeded, the text of the turn is
\* the sanitized text of the fallback response, the evidence is what the extractor
\* gives for that response, the answer is built from them, and neither the bubble nor
\* the stored message holds text the stream had delivered.
C19_FallbackReplacesStream ==
    StreamCallRaised =>
        /\ \/ pc = "fallback" /\ CallCount("create") = 0
           \/ pc = "idle" /\ CallCount("create") = 1
        /\ FallbackSucceeded =>
              /\ streamed_text = sanitize_text(KeptResponseText)
              /\ outcome = "done" =>
                    /\ sources_web = extract_sources_and_quotes(final_response_obj).web
                    /\ quotes_files = extract_sources_and_quotes(final_response_obj).files
                    /\ final_answer = sanitize_text(streamed_text)
                    /\ final_answer_with_cites =
                          WithReferences(InjectedText, refs_mapping)
                    /\ bubble = final_answer_with_cites
                    /\ chat_history[Len(chat_history)] =
                          [role |-> "assistant", content |-> final_answer_with_cites]
              /\ outcome # "done" => bubble = streamed_text

\* C19 witness: the stream raised after it had delivered text, the fallback call
\* returned, and the turn ended with an answer that carries references.
C19_Witness ==
    /\ pc = "idle" /\ outcome = "done"
    /\ Len(model_calls) = 2
    /\ model_calls[1].call = "stream" /\ model_calls[1].raised /\ model_calls[1].deltas > 0
    /\ model_calls[2].call = "create" /\ ~model_calls[2].raised
    /\ refs_mapping # <<>>

\* C20: a turn makes no retries: at most one streaming call and at most one
\* non-streaming call, the non-streaming call only after the streaming attempt raised,
\* and exactly one model call when the streaming attempt completes without exception.
C20_NoRetries ==
    /\ CallCount("stream") <= 1
    /\ CallCount("create") <= 1
    /\ CallCount("create") = 1 => StreamCallRaised
    /\ (pc = "idle" /\ CallCount("stream") = 1 /\ ~StreamCallRaised) => Len(model_calls) = 1

-----------------------------------------------------------------------------
(* The chat turn: what is stored in the history *)

\* C21: at the end of a completed turn the last entry of chat_history is the
\* assistant entry whose content is the reconciled string the bubble shows (the answer
\* with its markers and the appended references); it was appended once (no assistant
\* entry follows another); a later run of the script renders the stored entries as
\* they are, and no stored entry is changed afterwards (what a run rendered stays a
\* prefix of the history).
C21_StoredOnceAsShown ==
    /\ Len(page) <= Len(chat_history)
    /\ \A i \in 1..Len(page) : page[i] = chat_history[i]
    /\ \A i \in 1..Len(chat_history) :
          chat_history[i].role = "assistant" => (i > 1 /\ chat_history[i - 1].role = "user")
    /\ (pc = "idle" /\ outcome = "done") =>
          /\ chat_history # <<>>
          /\ chat_history[Len(chat_history)] = [role |-> "assistant", content |-> bubble]
          /\ bubble = final_answer_with_cites
          /\ bubble = WithReferences(InjectedText, refs_mapping)

\* C21 witness: after a turn that appended references, a later run rendered the two
\* stored entries, the second being the reconciled string of the turn.
C21_Witness ==
    /\ pc = "idle" /\ outcome = "done"
    /\ refs_mapping # <<>>
    /\ Len(page) = 2
    /\ page = chat_history
    /\ page[2] = [role |-> "assistant", content |-> final_answer_with_cites]

-----------------------------------------------------------------------------
(* Reading the numbers of a parse_investment_thesis result back *)

\* the text the model call of the client returned, when it returned
ModelText ==
    IF client.kind = "responses" THEN ResponseText(client.create.value)
    ELSE CompletionText((IF client.create.raised THEN client.retry ELSE client.create).value)

ModelCallReturned ==
    IF client.kind = "responses" THEN ~client.create.raised
    ELSE client.importable /\ (~client.create.raised \/ ~client.retry.raised)

\* the JSON value found in the text of the model, None when there is none
ParsedJson ==
    IF ModelCallReturned /\ Or(ModelText, EmptyStr).t = "str"
    THEN parse_json_from_text(Or(ModelText, EmptyStr).v)
    ELSE PyNone

\* a JSON number cut to an integer and clamped into 0..10
Clamped(x) ==
    LET n == IF x.t = "int" THEN IntValue(x) ELSE SignedValue(WholePart(x.v))
    IN  IF n < 0 THEN 0 ELSE IF n > 10 THEN 10 ELSE n

\* C22: in the dict parse_investment_thesis returns for a JSON object of the model,
\* each of the six scoring values is the parsed number clamped into 0..10 when the
\* object gives a number for it, the default of the dimension when it gives none (no
\* "scoring" field at all, a scoring that is no object, a dimension that is absent,
\* null, a list or a word), and in every case an integer in 0..10.
C22_ScoringClampedOrDefault ==
    (thesis_result.called /\ IsDict(ParsedJson)) =>
        /\ ~thesis_result.outcome.raised
        /\ LET scoring == thesis_result.outcome.value.v["scoring"]
               given == Get(ParsedJson, "scoring")
           IN  /\ IsDict(scoring) /\ DOMAIN scoring.v = ScoringKeys
               /\ \A dim \in ScoringKeys :
                     LET v == Get(given, dim) IN
                     /\ scoring.v[dim].t = "int"
                     /\ IntValue(scoring.v[dim]) \in 0..10
                     /\ (IsDict(given) /\ v.t \in {"int", "float"}) =>
                            IntValue(scoring.v[dim]) = Clamped(v)
                     /\ (~IsDict(given) \/ ToInt(v).raised) =>
                            scoring.v[dim] = ScoringFallback[dim]

\* the pair of ticket sizes a JSON object gives, when both convert to integers that
\* are not negative and in order
TicketsGiven(parsed) ==
    LET lo == ToInt(Get(parsed, "ticket_min"))
        hi == ToInt(Get(parsed, "ticket_max"))
    IN  IF IsDict(parsed) /\ ~lo.raised /\ ~hi.raised
           /\ lo.value >= 0 /\ hi.value >= 0 /\ hi.value >= lo.value
        THEN <<lo.value, hi.value>>
        ELSE <<>>

\* C23: in every dict parse_investment_thesis returns, 0 <= ticket_min <= ticket_max:
\* the parsed pair is used only when both values convert to integers, both are not
\* negative and ticket_max >= ticket_min; in every other case the pair is 0 and
\* 1000000 together, never one parsed value beside one fallback value.
C23_TicketPairValidOrFallback ==
    (thesis_result.called /\ ~thesis_result.outcome.raised) =>
        LET r == thesis_result.outcome.value.v
            given == TicketsGiven(ParsedJson)
        IN  /\ r["ticket_min"].t = "int" /\ r["ticket_max"].t = "int"
            /\ 0 <= IntValue(r["ticket_min"])
            /\ IntValue(r["ticket_min"]) <= IntValue(r["ticket_max"])
            /\ <<IntValue(r["ticket_min"]), IntValue(r["ticket_max"])>> =
                  (IF given # <<>> THEN given ELSE <<0, 1000000>>)

\* C23 witness: the model gave a ticket_min that is no number beside a valid
\* ticket_max, and the fallback pair was returned.
C23_Witness ==
    /\ thesis_result.called /\ ~thesis_result.outcome.raised
    /\ IsDict(ParsedJson)
    /\ ToInt(Get(ParsedJson, "ticket_min")).raised
    /\ Get(ParsedJson, "ticket_max") = Num(500)
    /\ thesis_result.outcome.value.v["ticket_min"] = Num(0)
    /\ thesis_result.outcome.value.v["ticket_max"] = Num(1000000)

-----------------------------------------------------------------------------
(* The chat turn: the references section the model wrote itself *)

\* C24: a line that stands after a "References:" heading line of the model's answer
\* receives no injected marker: it comes out of the injection as it went in, so the
\* markers land on body lines only and the model's own reference entries are unchanged.
C24_ModelReferencesUnmarked ==
    (pc = "idle" /\ outcome = "done" /\ final_answer # <<>>) =>
        LET inl == SplitLines(final_answer)
            outl == SplitOnLF(InjectedText)
        IN  \A i, j \in 1..Len(inl) :
                (i < j /\ HasReferencesSection(inl[i])) => outl[j] = inl[j]

-----------------------------------------------------------------------------
(* The chat session: the order of the history entries *)

\* C25: after any sequence of turns, also turns in which the streaming call and the
\* fallback call both fail, chat_history alternates user, assistant, user, assistant:
\* every user entry is followed by one assistant entry before the next user entry,
\* so the input sent to the model never holds two user messages in a row.
C25_RolesAlternate ==
    \A i \in 1..Len(chat_history) :
        chat_history[i].role = (IF i % 2 = 1 THEN "user" ELSE "assistant")

-----------------------------------------------------------------------------
\* a file named fname is attached to the vector store
Attached(fname) == \E k \in 1..Len(vs_files) : vs_files[k].filename = fname

\* C26: once the upload handler has processed an uploaded file, counted as added, replaced
\* or skipped, a file of that name is attached to the vector store, whatever uploads and
\* deletions came before
C26_ProcessedFileAttached ==
    upload_report.ran => \A i \in 1..Len(upload_report.names) : Attached(upload_report.names[i])

-----------------------------------------------------------------------------
\* the statuses the workstream list of session s shows
SeenStatuses(s) ==
    IF session_state[s].initialised
    THEN [name \in DOMAIN session_state[s].inbound_workstreams |-> StatusOf(s, name)]
    ELSE [name \in {} |-> "Active"]

\* the statuses of DEFAULT_INBOUND_WORKSTREAMS as the source writes them
OriginalStatuses == [name \in DOMAIN DefaultWorkstreams |-> DefaultWorkstreams[name].status]

\* C27: workstream state is isolated per session: a Pause/Activate click of one session
\* changes neither the statuses another session sees nor the module-level
\* DEFAULT_INBOUND_WORKSTREAMS, and a session that init_session_state has just initialised
\* shows the original default statuses
C27_SessionsIsolated ==
    [][\A s \in Sessions :
          /\ (clicks' = clicks + 1 /\ last_click'.button = "Toggle" /\ last_click'.session = s)
                => /\ DEFAULT_INBOUND_WORKSTREAMS' = DEFAULT_INBOUND_WORKSTREAMS
                   /\ \A t \in Sessions \ {s} : SeenStatuses(t)' = SeenStatuses(t)
          /\ (~session_state[s].initialised /\ session_state'[s].initialised)
                => SeenStatuses(s)' = OriginalStatuses]_vars

\* C29: in AgentLab, after any clicks on Create New Workstream, Config, Pause/Activate,
\* Delete and Save Workstream, current_workstream is None or the name of a workstream of
\* inbound_workstreams, creating_workstream is not true while current_workstream is set,
\* and a click that deletes the configured workstream resets current_workstream to None
C29_CurrentWorkstreamConsistent ==
    /\ [](\A s \in Sessions :
             session_state[s].initialised =>
                 LET current == session_state[s].current_workstream
                 IN  /\ \/ current = PyNone
                        \/ /\ current.t = "str"
                           /\ current.v \in DOMAIN session_state[s].inbound_workstreams
                     /\ ~(session_state[s].creating_workstream /\ current # PyNone))
    /\ [][\A s \in Sessions :
             (/\ session_state[s].initialised
              /\ session_state[s].current_workstream # PyNone
              /\ session_state[s].current_workstream.v
                    \notin DOMAIN session_state'[s].inbound_workstreams)
                => session_state'[s].current_workstream = PyNone]_vars

\* a session has just deleted the workstream it was configuring
C29_Witness ==
    /\ last_click.button = "Delete"
    /\ last_click.current_workstream = PyStr(last_click.name)
    /\ last_click.name \notin DOMAIN session_state[last_click.session].inbound_workstreams
    /\ session_state[last_click.session].current_workstream = PyNone

\* s holds a token [turn<digits>file<digits>]
HasTurnFile(s) == \E i \in 1..Len(s) : TurnFileMatch(SubSeq(s, i, Len(s))) > 0

\* s holds a span that opens with U+E200 and closes with U+E201
HasWrappedSpan(s) == \E i, j \in 1..Len(s) : i < j /\ s[i] = CiteOpen /\ s[j] = CiteClose

\* C28: the text sanitize_text returns holds no token [turn<digits>file<digits>], no
\* zero-width character and no span wrapped in U+E200...U+E201, and neither starts nor ends
\* with whitespace; so sanitising once (streaming path) and twice (fallback path) give the
\* same final answer for the same raw model text
C28_SanitizedCleanAndIdempotent ==
    sanitize_result.called =>
        LET out == sanitize_result.streaming
        IN  /\ ~HasTurnFile(out)
            /\ \A i \in 1..Len(out) : out[i] \notin ZeroWidthChars
            /\ ~HasWrappedSpan(out)
            /\ out # <<>> => (out[1] \notin Whitespace /\ out[Len(out)] \notin Whitespace)
            /\ sanitize_result.fallback = out

====
